---- MODULE Spec2Model ----
(***************************************************************************)
(* Verification model of llm-mux: the quota manager (auth selection,       *)
(* cooldowns, sticky sessions) and the resilience layer (circuit breaker). *)
(* Time is a discrete clock; one tick is the model's time unit.            *)
(***************************************************************************)
EXTENDS Integers, Sequences, FiniteSets, TLC

\* ---------------------------------------------------------------- bounds

\* Last value of the quota manager's clock.
MaxTime == 2
\* Largest cooldown hint (in ticks) a 429 carries; hint 0 stands for "no hint".
MaxHint == 2
\* Cap on total_tokens_used of one auth.
MaxTokens == 2
\* Last value of the circuit breaker's clock.
MaxClock == 4
\* Cap on the requests one breaker admits in one counting interval.
MaxCalls == 12
\* Cap on the snapshots the quota endpoint returns.
MaxSnaps == 3
\* Longest JSON array of a payload; payloads nest two levels deep.
MaxItems == 2
\* Longest tail of a tool-call id after its prefixes.
MaxTail == 2
\* Most default rules and most override rules of a configuration.
MaxRules == 2
\* Most registrations with the translator registry.
MaxRegs == 3
\* The usage backend: the channel's buffer (pgDefaultChannelBufferSize,
\* scaled down), the configured batch size and the records ever made.
QueueCap == 2
BatchSize == 2
MaxRecords == 4
\* Most runs of the refresh function.
MaxRuns == 3
\* Backoff: the width of int and time.Duration (64 bits, scaled down), the
\* largest attempt number and the largest delay handed in.
IntBits == 6
MaxAttempt == 7
MaxDelay == 3
\* Longest delay of a backoff wait.
MaxWait == 3
\* Gemini buckets: the capacity (the RPM limit, 60 by default, scaled down)
\* and the last value of the clock; one token is refilled per unit of time.
GeminiCapacity == 3
MaxGNow == 2
\* Antigravity scoring: the last minute of the clock, the denominator of the
\* snapshot's remaining fraction, and the largest count of active requests.
MaxAgNow == 6
FracDen == 2
MaxActive == 1
\* Pattern matching: the longest pattern and model name.
MaxGlobLen == 3
\* The calls of Stop.
MaxStops == 2

\* ------------------------------------------------------- program constants

\* make(chan *RealQuotaSnapshot, 1)
ChanCap == 1

\* config.EstimatedLimit of the provider's quota config (tokens per window).
EstimatedLimit == 8
\* The strategy default cooldown, 5 * time.Hour, in ticks.
DefaultCooldown == 3
\* selectWithStrategy: topN := 3.
TopN == 3
\* selectWithStrategy: priorities closer than this to the best are tied.
SimilarDelta == 100
\* Score: weight of one active request.
ActiveWeight == 1000
\* Score: weight of the usage ratio.
UsageWeight == 500
BucketWeight == 600
\* AntigravityStrategy.Score: weight of the consumed fraction of the real quota.
RealWeight == 800
\* AntigravityStrategy.Score: a snapshot is fresh for less than 5 minutes.
StaleWindow == 5

Auths == {"a1", "a2", "a3", "a4"}
Procs == {"p1", "p2"}
None == "none"

VARIABLES
    now,              \* time.Now() of the quota manager
    activeRequests,   \* AuthQuotaState.ActiveRequests, per auth
    cooldownUntil,    \* AuthQuotaState.CooldownUntil, per auth
    lastExhaustedAt,  \* AuthQuotaState.LastExhaustedAt, per auth
    totalTokensUsed,  \* AuthQuotaState.TotalTokensUsed, per auth
    learnedLimit,     \* AuthQuotaState.LearnedLimit, per auth
    disabledUntil,    \* Auth.disabled_until, per auth
    suspended,        \* auths suspended for the requested model
    sticky,           \* StickyStore entry of the (provider, model) key
    stickyEnabled,    \* config.StickyEnabled
    refreshCancels,   \* QuotaManager.refreshCancels: auth ids with a refresher
    pc,               \* per request task: its position
    cands,            \* per task: Pick's auths argument
    forceRotate,      \* per task: opts.ForceRotate
    available,        \* per task: Pick's available list
    ranked,           \* per task: selectWithStrategy's sorted candidates
    similarCount,     \* per task: selectWithStrategy's similarCount
    selected,         \* per task: the auth Pick chose
    path,             \* per task: the return path Pick took
    result,           \* per task: what the last Pick returned
    retryAt,          \* per task: the time a RetryAfterError carries
    hitNow,           \* per task: OnQuotaHit's now
    hitHint,          \* per task: OnQuotaHit's cooldown argument (0 = nil)
    hitTokens,        \* per task: OnQuotaHit's tokensUsed
    hitLimit,         \* per task: OnQuotaHit's currentLimit
    demand,           \* history: per auth, latest end of a completed hit's window
    bnow,             \* time.Now() of the circuit breaker, in ticks of 10 s
    cb,               \* gobreaker.CircuitBreaker: state, generation, counts, expiry
    defaultIsSuccessful, \* the package variable DefaultIsSuccessful
    cpc,              \* per caller of Execute: its position
    cgen,             \* per caller: the generation beforeRequest returned
    cres,             \* per caller: what its last Execute returned
    observed,         \* what the last State() call returned
    seen,             \* history: the outcomes the wrapped function has had
    xpc,              \* Executor.Execute: position of the retry loop
    xattempts,        \* Executor.Execute: invocations of fn in this call
    xerr,             \* Executor.Execute: what fn returned last
    refreshCancel,    \* m.refreshCancels[a]: the refresher its cancel stops
    rctx,             \* per refresher: its context, live or cancelled
    rpc,              \* per refresher: position of the StartRefresh goroutine
    rsnap,            \* per refresher: the snapshot just fetched (0 = nil)
    rch,              \* per refresher: the channel StartRefresh returns
    rclosed,          \* per refresher: whether that channel is closed
    rtick,            \* per refresher: a tick waits in ticker.C
    dpc,              \* per refresher: position of RegisterAuth's drain goroutine
    dsnap,            \* per refresher: the snapshot the drain loop received
    realQuota,        \* AuthQuotaState.realQuota of a (0 = nil)
    nextSnap,         \* number of snapshots fetched so far
    unreg,            \* history: UnregisterAuth(a) returned, no RegisterAuth since
    ticksSince,       \* history: per refresher, ticks elapsed since its cancel
    sanPc,            \* SanitizeUndefinedValues: calls made on the payload
    sanIn,            \* the payload
    sanOut,           \* SanitizeUndefinedValues(payload)
    sanOut2,          \* SanitizeUndefinedValues of that result
    tidPc,            \* tool-call id: conversions made
    tidDir,           \* which conversion comes first
    tidIn,            \* the tool-call id
    tidOut,           \* the id converted to the other form
    tidBack,          \* that id converted back
    envPc,            \* Cloud Code envelope: calls made
    envIn,            \* the payload
    envOut,           \* EnsureRequestEnvelope of the payload
    envOut2,          \* EnsureRequestEnvelope of that result
    plPc,             \* payload rules: calls made
    plCfg,            \* cfg.Payload: the default and the override rules
    plModel,          \* the model name
    plIn,             \* the payload
    plOut,            \* ApplyPayloadConfig of the payload
    toIR,             \* translator registry: format name -> parser
    fromIR,           \* translator registry: provider name -> converter
    regLog,           \* the registrations made, oldest first
    lookup,           \* the last lookup and what it returned
    recordChan,       \* usage backend: the buffered channel of records
    batch,            \* the write loop's batch
    written,          \* the records handed to writeBatch, in order
    dropped,          \* the records Enqueue dropped
    upc,              \* per caller: "idle" or "enqueue"
    urec,             \* per caller: the record it enqueues
    nextRecord,       \* the records made so far
    sfm,              \* token refresh: key -> the call in flight, 0 for none
    sfCalls,          \* the calls made: key, auth refreshed, result, error, done
    tpc,              \* per caller: "idle", "run", "wait" or "done"
    tkey,             \* per caller: the auth id it refreshes
    tcall,            \* per caller: the call it started or joined
    tres,             \* per caller: what Do returned
    boPc,             \* backoff: calls made
    boAttempt,        \* the attempt number
    boBase,           \* baseDelay
    boMax,            \* maxDelay
    boJitter,         \* jitterDelay
    boOut,            \* what CalculateBackoff returned
    wPc,              \* backoff wait: "idle", "timer", "parked" or "returned"
    wDelay,           \* the delay asked for
    wElapsed,         \* time since the call
    wCancelled,       \* ctx is cancelled
    wAtCall,          \* ctx was cancelled when WaitWithContext was called
    wCancelAt,        \* the time since the call at which ctx was cancelled
    wRet,             \* what WaitWithContext returned
    gnow,             \* Gemini buckets: the clock, in token fill times
    gtokens,          \* per auth: bucket.tokens
    glastFill,        \* per auth: bucket.lastFill
    gpicks,           \* per auth: the picks of it so far
    gpc,              \* per scorer: "idle", "tokens", "cas", "store" or "ret"
    gauth,            \* per scorer: the auth it scores
    gt,               \* per scorer: the time it read
    glast,            \* per scorer: the lastFill it read
    grefilled,        \* per scorer: the refilled count it computed
    gscore,           \* per scorer: the priority Score returned last
    agPc,             \* Antigravity scoring: "ready" or "done"
    agIn,             \* the state, snapshot and clock of the Score call
    agOut,            \* the priorities the two strategies returned
    glPc,             \* pattern matching: "ready" or "done"
    glPattern,        \* the pattern of the call, a sequence of characters
    glModel,          \* the model name of the call
    glOut,            \* what MatchModelPattern returned
    urOnce,           \* usage reporter: r.once is "fresh", "running" or "done"
    urRecords,        \* the records handed to usage.PublishRecord, in order
    urPc,             \* per caller: "idle", "do" (at once.Do), "f" (in the function)
    urArg,            \* per caller: the record its call would publish
    urSkipped,        \* a call returned before once.Do while r.once was fresh
    stopClosed,       \* usage backend: stopChan is closed
    stopPc,           \* Stop: "idle", "waiting" (in wg.Wait) or "returned"
    stopCalls,        \* the calls of Stop made so far
    wlPc,             \* writeLoop: "loop", "drain" or "exited"
    fpc,              \* Flush: "idle" or "drain"
    fbatch,           \* Flush's batch
    acceptedAtStop,   \* the records Enqueue had accepted when Stop was called
    msMu,             \* model registry: the holder of writerMu, or "none"
    msState,          \* the published registry state, per registered model
    msPc,             \* per writer: "idle", "locked" or "cloned"
    msOp,             \* per writer: the call it is in
    msNew,            \* per writer: its clone of the state
    msExpected,       \* per registered model and client: the reason of the
                      \* suspension in force, by the order of the calls
    msLast            \* how the last finished call ended

quotaState == <<activeRequests, cooldownUntil, lastExhaustedAt, totalTokensUsed,
                learnedLimit>>
envState == <<disabledUntil, suspended, stickyEnabled, refreshCancels>>
pickLocals == <<cands, forceRotate, available, ranked, similarCount, selected,
                path, result, retryAt>>
hitLocals == <<hitNow, hitHint, hitTokens, hitLimit>>
quotaVars == <<now, quotaState, envState, sticky, pc, pickLocals, hitLocals, demand>>

breakerVars == <<bnow, cb, defaultIsSuccessful, cpc, cgen, cres, observed, seen>>

retryVars == <<xpc, xattempts, xerr>>

refreshVars == <<refreshCancel, rctx, rpc, rsnap, rch, rclosed, rtick, dpc, dsnap,
                 realQuota, nextSnap, unreg, ticksSince>>

sanitizeVars == <<sanPc, sanIn, sanOut, sanOut2>>

toolIdVars == <<tidPc, tidDir, tidIn, tidOut, tidBack>>

envelopeVars == <<envPc, envIn, envOut, envOut2>>

payloadVars == <<plPc, plCfg, plModel, plIn, plOut>>

registryVars == <<toIR, fromIR, regLog, lookup>>

stopVars == <<stopClosed, stopPc, stopCalls, wlPc, fpc, fbatch, acceptedAtStop>>

usageVars == <<recordChan, batch, written, dropped, upc, urec, nextRecord,
               stopVars>>

flightVars == <<sfm, sfCalls, tpc, tkey, tcall, tres>>

backoffVars == <<boPc, boAttempt, boBase, boMax, boJitter, boOut>>

waitVars == <<wPc, wDelay, wElapsed, wCancelled, wAtCall, wCancelAt, wRet>>

geminiVars == <<gnow, gtokens, glastFill, gpicks, gpc, gauth, gt, glast,
               grefilled, gscore>>

antigravityVars == <<agPc, agIn, agOut>>

globVars == <<glPc, glPattern, glModel, glOut>>

reporterVars == <<urOnce, urRecords, urPc, urArg, urSkipped>>

suspensionVars == <<msMu, msState, msPc, msOp, msNew, msExpected, msLast>>

\* What the actions of each part leave alone.
notQuota == <<breakerVars, retryVars, refreshVars, sanitizeVars, toolIdVars,
              envelopeVars, payloadVars, registryVars, usageVars, flightVars,
              backoffVars, waitVars, geminiVars, antigravityVars, globVars,
              reporterVars, suspensionVars>>
notBreaker == <<quotaVars, retryVars, refreshVars, sanitizeVars, toolIdVars,
                envelopeVars, payloadVars, registryVars, usageVars,
                flightVars, backoffVars, waitVars, geminiVars,
                antigravityVars, globVars, reporterVars, suspensionVars>>
notRetry == <<quotaVars, breakerVars, refreshVars, sanitizeVars, toolIdVars,
              envelopeVars, payloadVars, registryVars, usageVars, flightVars,
              backoffVars, waitVars, geminiVars, antigravityVars, globVars,
              reporterVars, suspensionVars>>
notRefresh == <<quotaVars, breakerVars, retryVars, sanitizeVars, toolIdVars,
                envelopeVars, payloadVars, registryVars, usageVars,
                flightVars, backoffVars, waitVars, geminiVars,
                antigravityVars, globVars, reporterVars, suspensionVars>>
notSanitize == <<quotaVars, breakerVars, retryVars, refreshVars, toolIdVars,
                 envelopeVars, payloadVars, registryVars, usageVars,
                 flightVars, backoffVars, waitVars, geminiVars,
                 antigravityVars, globVars, reporterVars, suspensionVars>>
notToolId == <<quotaVars, breakerVars, retryVars, refreshVars, sanitizeVars,
               envelopeVars, payloadVars, registryVars, usageVars,
               flightVars, backoffVars, waitVars, geminiVars,
               antigravityVars, globVars, reporterVars, suspensionVars>>

notEnvelope == <<quotaVars, breakerVars, retryVars, refreshVars,
                 sanitizeVars, toolIdVars, payloadVars, registryVars,
                 usageVars, flightVars, backoffVars, waitVars, geminiVars,
                 antigravityVars, globVars, reporterVars, suspensionVars>>

notPayload == <<quotaVars, breakerVars, retryVars, refreshVars, sanitizeVars,
                toolIdVars, envelopeVars, registryVars, usageVars,
                flightVars, backoffVars, waitVars, geminiVars,
                antigravityVars, globVars, reporterVars, suspensionVars>>

notRegistry == <<quotaVars, breakerVars, retryVars, refreshVars,
                 sanitizeVars, toolIdVars, envelopeVars, payloadVars,
                 usageVars, flightVars, backoffVars, waitVars, geminiVars,
                 antigravityVars, globVars, reporterVars, suspensionVars>>

notUsage == <<quotaVars, breakerVars, retryVars, refreshVars, sanitizeVars,
              toolIdVars, envelopeVars, payloadVars, registryVars,
              flightVars, backoffVars, waitVars, geminiVars, antigravityVars,
              globVars, reporterVars, suspensionVars>>

notFlight == <<quotaVars, breakerVars, retryVars, refreshVars, sanitizeVars,
               toolIdVars, envelopeVars, payloadVars, registryVars,
               usageVars, backoffVars, waitVars, geminiVars, antigravityVars,
               globVars, reporterVars, suspensionVars>>

notBackoff == <<quotaVars, breakerVars, retryVars, refreshVars, sanitizeVars,
                toolIdVars, envelopeVars, payloadVars, registryVars,
                usageVars, flightVars, waitVars, geminiVars, antigravityVars,
                globVars, reporterVars, suspensionVars>>

notWait == <<quotaVars, breakerVars, retryVars, refreshVars, sanitizeVars,
             toolIdVars, envelopeVars, payloadVars, registryVars, usageVars,
             flightVars, backoffVars, geminiVars, antigravityVars, globVars,
             reporterVars, suspensionVars>>

notGemini == <<quotaVars, breakerVars, retryVars, refreshVars, sanitizeVars,
               toolIdVars, envelopeVars, payloadVars, registryVars,
               usageVars, flightVars, backoffVars, waitVars, antigravityVars,
               globVars, reporterVars, suspensionVars>>

notAntigravity == <<quotaVars, breakerVars, retryVars, refreshVars,
                    sanitizeVars, toolIdVars, envelopeVars, payloadVars,
                    registryVars, usageVars, flightVars, backoffVars,
                    waitVars, geminiVars, globVars, reporterVars,
                    suspensionVars>>

notGlob == <<quotaVars, breakerVars, retryVars, refreshVars, sanitizeVars,
             toolIdVars, envelopeVars, payloadVars, registryVars, usageVars,
             flightVars, backoffVars, waitVars, geminiVars, antigravityVars,
             reporterVars, suspensionVars>>

notReporter == <<quotaVars, breakerVars, retryVars, refreshVars,
                 sanitizeVars, toolIdVars, envelopeVars, payloadVars,
                 registryVars, usageVars, flightVars, backoffVars, waitVars,
                 geminiVars, antigravityVars, globVars, suspensionVars>>

notRetryBreaker == <<quotaVars, refreshVars, sanitizeVars, toolIdVars,
                     envelopeVars, payloadVars, registryVars, usageVars,
                     flightVars, backoffVars, waitVars, geminiVars,
                     antigravityVars, globVars, reporterVars, suspensionVars>>

notSuspension == <<quotaVars, breakerVars, retryVars, refreshVars,
                   sanitizeVars, toolIdVars, envelopeVars, payloadVars,
                   registryVars, usageVars, flightVars, backoffVars,
                   waitVars, geminiVars, antigravityVars, globVars,
                   reporterVars>>

vars == <<quotaVars, breakerVars, retryVars, refreshVars, sanitizeVars,
          toolIdVars, envelopeVars, payloadVars, registryVars, usageVars,
          flightVars, backoffVars, waitVars, geminiVars, antigravityVars,
          globVars, reporterVars, suspensionVars>>

\* ------------------------------------------------------------- helpers

Max(a, b) == IF a >= b THEN a ELSE b
Min(a, b) == IF a <= b THEN a ELSE b
Range(s) == {s[i] : i \in 1..Len(s)}
Front(s) == SubSeq(s, 1, Len(s) - 1)
Last(s) == s[Len(s)]

\* The subsequence of s whose elements are in set keep, in s's order.
RECURSIVE Keep(_, _)
Keep(s, keep) ==
    IF s = <<>> THEN <<>>
    ELSE IF s[1] \in keep THEN <<s[1]>> \o Keep(Tail(s), keep)
    ELSE Keep(Tail(s), keep)

\* ------------------------------------------------- availability (Pick)

\* filterAvailable's test of one auth at time t: not disabled, not cooling,
\* not suspended for the model.
isAvailable(a, t) ==
    /\ disabledUntil[a] <= t
    /\ cooldownUntil[a] <= t
    /\ a \notin suspended

\* filterAvailable(auths, model, now): the available candidates, in order.
filterAvailable(auths, t) ==
    Keep(auths, {a \in Range(auths) : isAvailable(a, t)})

\* buildRetryError(auths, now): the earliest cooldown_until of the candidates.
RECURSIVE buildRetryError(_)
buildRetryError(auths) ==
    IF Len(auths) = 1 THEN cooldownUntil[auths[1]]
    ELSE Min(cooldownUntil[auths[1]], buildRetryError(Tail(auths)))

\* ------------------------------------------------------------ scoring

\* ClaudeStrategy.Score: active requests * 1000 + usage ratio * 500, the
\* limit being the learned one or, without one, config.EstimatedLimit.
\* int64(float64(used)/float64(limit)*500) is the truncated quotient for the
\* magnitudes of the model.
Score(a) ==
    LET limit == IF learnedLimit[a] <= 0 THEN EstimatedLimit ELSE learnedLimit[a]
        usage == IF limit > 0 THEN (totalTokensUsed[a] * UsageWeight) \div limit
                 ELSE 0
    IN  activeRequests[a] * ActiveWeight + usage

\* The scored struct of every candidate, in candidate order.
ScoreAll(auths) ==
    [i \in 1..Len(auths) |-> [auth |-> auths[i], priority |-> Score(auths[i])]]

\* sort.Slice by ascending priority. The slices here are short (at most 12
\* elements), for which sort.Slice is an insertion sort: equal priorities
\* keep their candidate order.
RECURSIVE InsertScored(_, _)
InsertScored(x, s) ==
    IF s = <<>> THEN <<x>>
    ELSE IF x.priority < Last(s).priority
         THEN InsertScored(x, Front(s)) \o <<Last(s)>>
         ELSE s \o <<x>>

RECURSIVE SortScored(_)
SortScored(s) ==
    IF s = <<>> THEN <<>> ELSE InsertScored(Last(s), SortScored(Front(s)))

\* SimilarCount without the priority test: every top-N candidate is tied.
SimilarCount_NoDelta(sorted) ==
    IF Len(sorted) < TopN THEN Len(sorted) ELSE TopN

\* SimilarCount without the cut at the top N candidates.
SimilarCount_NoTopN(sorted) ==
    Cardinality({i \in 1..Len(sorted) :
                    sorted[i].priority - sorted[1].priority < SimilarDelta})

\* selectWithStrategy's similarCount: how many of the top N sorted candidates
\* have priority - minPriority < 100.
SimilarCount(sorted) ==
    LET topN == IF Len(sorted) < TopN THEN Len(sorted) ELSE TopN
    IN  Cardinality({i \in 1..topN :
                        sorted[i].priority - sorted[1].priority < SimilarDelta})

\* selectWithStrategy's result set: rand.Intn(similarCount) indexes the
\* sorted candidates when similarCount > 1, otherwise candidates[0].
DrawRange(n) == IF n > 1 THEN 1..n ELSE {1}

\* ------------------------------------------------------------- Pick

\* PickPath with the empty-available return carrying the wrong error.
PickPath_WrongError(auths, avail, force) ==
    IF Len(auths) = 0 \/ Len(avail) = 0 THEN "auth_not_found"
    ELSE IF Len(avail) = 1 THEN "single"
    ELSE IF stickyEnabled /\ ~force /\ sticky \in Range(avail) THEN "sticky"
    ELSE "scored"

\* PickPath with the sticky entry trusted without looking it up in available.
PickPath_StickyUnchecked(auths, avail, force) ==
    IF Len(auths) = 0 THEN "auth_not_found"
    ELSE IF Len(avail) = 0 THEN "retry_after"
    ELSE IF Len(avail) = 1 THEN "single"
    ELSE IF stickyEnabled /\ ~force /\ sticky # None THEN "sticky"
    ELSE "scored"

\* PickPath with the sticky entry consulted even when ForceRotate is set.
PickPath_ForceIgnored(auths, avail, force) ==
    IF Len(auths) = 0 THEN "auth_not_found"
    ELSE IF Len(avail) = 0 THEN "retry_after"
    ELSE IF Len(avail) = 1 THEN "single"
    ELSE IF stickyEnabled /\ sticky \in Range(avail) THEN "sticky"
    ELSE "scored"

\* The branch Pick takes after filtering: no candidates, nothing available,
\* a single available auth, a sticky hit, or scoring.
PickPath(auths, avail, force) ==
    IF Len(auths) = 0 THEN "auth_not_found"
    ELSE IF Len(avail) = 0 THEN "retry_after"
    ELSE IF Len(avail) = 1 THEN "single"
    ELSE IF stickyEnabled /\ ~force /\ sticky \in Range(avail) THEN "sticky"
    ELSE "scored"

\* IncrementsActive with the sticky-hit return forgetting incrementActive.
IncrementsActive_NotSticky(branch) == branch \in {"single", "scored"}

\* IncrementsActive with the scoring return forgetting incrementActive.
IncrementsActive_NotScored(branch) == branch \in {"single", "sticky"}

\* Whether Pick calls m.incrementActive on the branch: it does on each of the
\* three branches that return an auth.
IncrementsActive(branch) == branch \in {"single", "sticky", "scored"}

\* Whether Pick calls m.sticky.Set on the branch: only after scoring.
SetsSticky(branch) == stickyEnabled /\ branch = "scored"

\* Pick up to the sticky check: now := time.Now(), filterAvailable, the early
\* returns, and the sticky lookup.
PickBegin(p, auths, force) ==
    /\ pc[p] = "idle"
    /\ LET avail == filterAvailable(auths, now)
           branch == PickPath(auths, avail, force)
       IN  /\ cands' = [cands EXCEPT ![p] = auths]
           /\ forceRotate' = [forceRotate EXCEPT ![p] = force]
           /\ available' = [available EXCEPT ![p] = avail]
           /\ path' = [path EXCEPT ![p] = branch]
           /\ ranked' = [ranked EXCEPT ![p] = <<>>]
           /\ similarCount' = [similarCount EXCEPT ![p] = 0]
           /\ selected' = [selected EXCEPT ![p] =
                   CASE branch = "single" -> avail[1]
                     [] branch = "sticky" -> sticky
                     [] OTHER -> None]
           /\ result' = [result EXCEPT ![p] =
                   IF branch \in {"auth_not_found", "retry_after"} THEN branch
                   ELSE None]
           /\ retryAt' = [retryAt EXCEPT ![p] =
                   IF branch = "retry_after" THEN buildRetryError(auths) ELSE 0]
           /\ pc' = [pc EXCEPT ![p] =
                   CASE branch \in {"auth_not_found", "retry_after"} -> "idle"
                     [] branch = "scored" -> "select"
                     [] OTHER -> "inc"]
    /\ UNCHANGED <<notQuota, now, quotaState, envState, sticky, hitLocals, demand>>

\* selectWithStrategy: score every available auth, sort, count the similar
\* top candidates and draw one of them.
selectWithStrategy(p) ==
    /\ pc[p] = "select"
    /\ LET sorted == SortScored(ScoreAll(available[p]))
           n == SimilarCount(sorted)
       IN  /\ ranked' = [ranked EXCEPT ![p] = sorted]
           /\ similarCount' = [similarCount EXCEPT ![p] = n]
           /\ \E i \in DrawRange(n) :
                  selected' = [selected EXCEPT ![p] = sorted[i].auth]
    /\ pc' = [pc EXCEPT ![p] = "stick"]
    /\ UNCHANGED <<notQuota, now, quotaState, envState, sticky, cands, forceRotate,
                   available, path, result, retryAt, hitLocals, demand>>

\* Pick after scoring: m.sticky.Set(provider+":"+model, selected.ID).
PickSticky(p) ==
    /\ pc[p] = "stick"
    /\ sticky' = IF SetsSticky(path[p]) THEN selected[p] ELSE sticky
    /\ pc' = [pc EXCEPT ![p] = "inc"]
    /\ UNCHANGED <<notQuota, now, quotaState, envState, pickLocals, hitLocals, demand>>

\* m.incrementActive(id): ActiveRequests.Add(1).
incrementActive(a) == [activeRequests EXCEPT ![a] = @ + 1]

\* Pick's last step on a branch that returns an auth: incrementActive, return.
PickReturn(p) ==
    /\ pc[p] = "inc"
    /\ activeRequests' = IF IncrementsActive(path[p])
                         THEN incrementActive(selected[p])
                         ELSE activeRequests
    /\ result' = [result EXCEPT ![p] = "auth"]
    /\ pc' = [pc EXCEPT ![p] = "holding"]
    /\ UNCHANGED <<notQuota, now, cooldownUntil, lastExhaustedAt, totalTokensUsed,
                   learnedLimit, envState, sticky, cands, forceRotate, available,
                   ranked, similarCount, selected, path, retryAt, hitLocals,
                   demand>>

\* strategy.RecordUsage(state, tokens): TotalTokensUsed.Add(tokens) if tokens > 0.
RecordUsage(a, tokens) ==
    IF tokens > 0 THEN [totalTokensUsed EXCEPT ![a] = @ + tokens]
    ELSE totalTokensUsed

\* record_request_end(auth_id, tokens_used): ActiveRequests.Add(-1) and the
\* strategy's RecordUsage. Called once by the task that holds the auth.
RecordRequestEnd(p, tokens) ==
    /\ pc[p] \in {"holding", "hit_done"}
    /\ totalTokensUsed[selected[p]] + tokens <= MaxTokens
    /\ activeRequests' = [activeRequests EXCEPT ![selected[p]] = @ - 1]
    /\ totalTokensUsed' = RecordUsage(selected[p], tokens)
    /\ pc' = [pc EXCEPT ![p] = "idle"]
    /\ cands' = [cands EXCEPT ![p] = <<>>]
    /\ available' = [available EXCEPT ![p] = <<>>]
    /\ ranked' = [ranked EXCEPT ![p] = <<>>]
    /\ similarCount' = [similarCount EXCEPT ![p] = 0]
    /\ selected' = [selected EXCEPT ![p] = None]
    /\ path' = [path EXCEPT ![p] = None]
    /\ result' = [result EXCEPT ![p] = None]
    /\ forceRotate' = [forceRotate EXCEPT ![p] = FALSE]
    /\ hitNow' = [hitNow EXCEPT ![p] = 0]
    /\ hitHint' = [hitHint EXCEPT ![p] = 0]
    /\ hitTokens' = [hitTokens EXCEPT ![p] = 0]
    /\ hitLimit' = [hitLimit EXCEPT ![p] = 0]
    /\ UNCHANGED <<notQuota, now, cooldownUntil, lastExhaustedAt, learnedLimit, envState,
                   sticky, retryAt, demand>>

\* ------------------------------------------------------ OnQuotaHit (429)

\* HitCooldownFor with the hint ignored: always the strategy default.
HitCooldownFor_HintIgnored(hint) == DefaultCooldown

\* The cooldown OnQuotaHit applies: the hint when one is given and positive,
\* otherwise the strategy default.
HitCooldownFor(hint) == IF hint > 0 THEN hint ELSE DefaultCooldown

\* The value OnQuotaHit stores in CooldownUntil: now.Add(cooldown).
NewCooldownUntil(a, t, hint) == t + HitCooldownFor(hint)

\* OnQuotaHit: now := time.Now(); state.SetLastExhaustedAt(now).
HitBegin(p, hint) ==
    /\ pc[p] = "holding"
    /\ hitNow' = [hitNow EXCEPT ![p] = now]
    /\ hitHint' = [hitHint EXCEPT ![p] = hint]
    /\ lastExhaustedAt' = [lastExhaustedAt EXCEPT ![selected[p]] = now]
    /\ pc' = [pc EXCEPT ![p] = "hit_load"]
    /\ UNCHANGED <<notQuota, now, activeRequests, cooldownUntil, totalTokensUsed,
                   learnedLimit, envState, sticky, pickLocals, hitTokens,
                   hitLimit, demand>>

\* OnQuotaHit: tokensUsed := state.TotalTokensUsed.Load().
HitLoadTokens(p) ==
    /\ pc[p] = "hit_load"
    /\ hitTokens' = [hitTokens EXCEPT ![p] = totalTokensUsed[selected[p]]]
    /\ pc' = [pc EXCEPT ![p] = "hit_limit"]
    /\ UNCHANGED <<notQuota, now, quotaState, envState, sticky, pickLocals, hitNow,
                   hitHint, hitLimit, demand>>

\* OnQuotaHit's loop head: currentLimit := state.LearnedLimit.Load(); break
\* when tokensUsed <= currentLimit.
HitLoadLimit(p) ==
    /\ pc[p] = "hit_limit"
    /\ hitLimit' = [hitLimit EXCEPT ![p] = learnedLimit[selected[p]]]
    /\ pc' = [pc EXCEPT ![p] =
            IF hitTokens[p] <= learnedLimit[selected[p]] THEN "hit_cool"
            ELSE "hit_cas"]
    /\ UNCHANGED <<notQuota, now, quotaState, envState, sticky, pickLocals, hitNow,
                   hitHint, hitTokens, demand>>

\* HitCAS with a plain LearnedLimit.Store(tokensUsed) in place of the
\* compare-and-swap.
HitCAS_Store(p) ==
    /\ pc[p] = "hit_cas"
    /\ learnedLimit' = [learnedLimit EXCEPT ![selected[p]] = hitTokens[p]]
    /\ pc' = [pc EXCEPT ![p] = "hit_cool"]
    /\ UNCHANGED <<notQuota, now, activeRequests, cooldownUntil, lastExhaustedAt,
                   totalTokensUsed, envState, sticky, pickLocals, hitLocals,
                   demand>>

\* OnQuotaHit's loop body: LearnedLimit.CompareAndSwap(currentLimit, tokensUsed);
\* break on success, otherwise loop.
HitCAS(p) ==
    /\ pc[p] = "hit_cas"
    /\ IF learnedLimit[selected[p]] = hitLimit[p]
       THEN /\ learnedLimit' = [learnedLimit EXCEPT ![selected[p]] = hitTokens[p]]
            /\ pc' = [pc EXCEPT ![p] = "hit_cool"]
       ELSE /\ learnedLimit' = learnedLimit
            /\ pc' = [pc EXCEPT ![p] = "hit_limit"]
    /\ UNCHANGED <<notQuota, now, activeRequests, cooldownUntil, lastExhaustedAt,
                   totalTokensUsed, envState, sticky, pickLocals, hitLocals,
                   demand>>

\* OnQuotaHit: state.SetCooldownUntil(now.Add(cooldown or 5h)).
HitCooldown(p) ==
    /\ pc[p] = "hit_cool"
    /\ cooldownUntil' = [cooldownUntil EXCEPT ![selected[p]] =
            NewCooldownUntil(selected[p], hitNow[p], hitHint[p])]
    /\ pc' = [pc EXCEPT ![p] = "hit_reset"]
    /\ UNCHANGED <<notQuota, now, activeRequests, lastExhaustedAt, totalTokensUsed,
                   learnedLimit, envState, sticky, pickLocals, hitLocals, demand>>

\* OnQuotaHit: state.TotalTokensUsed.Store(0), and the return. The history
\* variable records the end of the window this hit asked for.
HitReset(p) ==
    /\ pc[p] = "hit_reset"
    /\ totalTokensUsed' = [totalTokensUsed EXCEPT ![selected[p]] = 0]
    /\ demand' = [demand EXCEPT ![selected[p]] =
            Max(@, hitNow[p] + HitCooldownFor(hitHint[p]))]
    /\ pc' = [pc EXCEPT ![p] = "hit_done"]
    /\ hitNow' = [hitNow EXCEPT ![p] = 0]
    /\ hitHint' = [hitHint EXCEPT ![p] = 0]
    /\ hitTokens' = [hitTokens EXCEPT ![p] = 0]
    /\ hitLimit' = [hitLimit EXCEPT ![p] = 0]
    /\ UNCHANGED <<notQuota, now, activeRequests, cooldownUntil, lastExhaustedAt,
                   learnedLimit, envState, sticky, pickLocals>>

OnQuotaHit(p) ==
    \/ \E hint \in 0..MaxHint : HitBegin(p, hint)
    \/ HitLoadTokens(p)
    \/ HitLoadLimit(p)
    \/ HitCAS(p)
    \/ HitCooldown(p)
    \/ HitReset(p)

\* ---------------------------------------------------------- environment

\* The clock advances.
Tick ==
    /\ now < MaxTime
    /\ now' = now + 1
    /\ UNCHANGED <<notQuota, quotaState, envState, sticky, pc, pickLocals, hitLocals, demand>>

\* The orchestrator disables an auth until the next tick (disabled_until).
Disable(a) ==
    /\ disabledUntil[a] <= now
    /\ disabledUntil' = [disabledUntil EXCEPT ![a] = now + 1]
    /\ UNCHANGED <<notQuota, now, quotaState, suspended, stickyEnabled, refreshCancels,
                   sticky, pc, pickLocals, hitLocals, demand>>

\* The model registry suspends an auth for the model.
Suspend(a) ==
    /\ a \notin suspended
    /\ suspended' = suspended \cup {a}
    /\ UNCHANGED <<notQuota, now, quotaState, disabledUntil, stickyEnabled, refreshCancels,
                   sticky, pc, pickLocals, hitLocals, demand>>

\* The model registry resumes an auth for the model.
Resume(a) ==
    /\ a \in suspended
    /\ suspended' = suspended \ {a}
    /\ UNCHANGED <<notQuota, now, quotaState, disabledUntil, stickyEnabled, refreshCancels,
                   sticky, pc, pickLocals, hitLocals, demand>>

\* The sticky entry expires (TTL).
StickyExpire ==
    /\ sticky # None
    /\ sticky' = None
    /\ UNCHANGED <<notQuota, now, quotaState, envState, pc, pickLocals, hitLocals, demand>>

\* RegisterAuth: the auth's cancel func replaces any old one in refreshCancels.
RegisterAuth(a) ==
    /\ refreshCancels' = refreshCancels \cup {a}
    /\ UNCHANGED <<notQuota, now, quotaState, disabledUntil, suspended, stickyEnabled,
                   sticky, pc, pickLocals, hitLocals, demand>>

\* UnregisterAuth: cancel and delete(m.refreshCancels, authID).
UnregisterAuth(a) ==
    /\ refreshCancels' = refreshCancels \ {a}
    /\ UNCHANGED <<notQuota, now, quotaState, disabledUntil, suspended, stickyEnabled,
                   sticky, pc, pickLocals, hitLocals, demand>>

\* ------------------------------------------------ circuit breaker (config)

\* DefaultBreakerConfig, in ticks of 10 s where the field is a duration.
CfgMaxRequests == 3
CfgInterval == 1
CfgTimeout == 3
CfgFailureThreshold == 5
FailureRatioNum == 1
FailureRatioDen == 2
CfgMinRequests == 10

Callers == {"c1", "c2"}
\* What the wrapped function returns: nil, a user error (HTTP 400), or a
\* server or transport error.
Outcomes == {"nil", "user", "server"}

ZeroCounts ==
    [Requests |-> 0, TotalSuccesses |-> 0, TotalFailures |-> 0,
     ConsecutiveSuccesses |-> 0, ConsecutiveFailures |-> 0]

\* The callback the provider package stores in DefaultIsSuccessful at init:
\* a nil error and a user error are successes.
ProviderIsSuccessful(err) == err = "nil" \/ err = "user"

\* The fallback of DefaultBreakerConfig: only nil errors are successful.
FallbackIsSuccessful(err) == err = "nil"

CfgIsSuccessful_AlwaysFallback(err) == FallbackIsSuccessful(err)

\* DefaultBreakerConfig: IsSuccessful is DefaultIsSuccessful, or the fallback
\* when that is nil.
CfgIsSuccessful(err) ==
    IF defaultIsSuccessful = "nil"
    THEN FallbackIsSuccessful(err)
    ELSE ProviderIsSuccessful(err)

ReadyToTrip_NoMinRequests(counts) ==
    \/ counts.ConsecutiveFailures >= CfgFailureThreshold
    \/ counts.TotalFailures * FailureRatioDen >= FailureRatioNum * counts.Requests

\* NewCircuitBreaker: the ReadyToTrip closure.
ReadyToTrip(counts) ==
    IF counts.Requests < CfgMinRequests
    THEN FALSE
    ELSE IF counts.ConsecutiveFailures >= CfgFailureThreshold
    THEN TRUE
    ELSE counts.TotalFailures * FailureRatioDen >= FailureRatioNum * counts.Requests

SettingsTimeout_Interval == CfgInterval

\* NewCircuitBreaker: the settings handed to gobreaker.
SettingsTimeout == CfgTimeout
SettingsInterval == CfgInterval
SettingsMaxRequests_Threshold == CfgFailureThreshold

SettingsMaxRequests == CfgMaxRequests

\* ----------------------------------------- circuit breaker (gobreaker)

\* toNewGeneration: a new generation with cleared counts; the expiry is the
\* end of the counting interval (Closed), of the timeout (Open), or the zero
\* time, written 0 (every instant the breaker sets is later).
toNewGeneration(b, t) ==
    [b EXCEPT !.generation = @ + 1,
              !.counts = ZeroCounts,
              !.expiry = CASE b.state = "closed" ->
                                IF SettingsInterval = 0 THEN 0
                                ELSE t + SettingsInterval
                           [] b.state = "open" -> t + SettingsTimeout
                           [] OTHER -> 0]

\* setState
setState(b, st, t) ==
    IF b.state = st THEN b ELSE toNewGeneration([b EXCEPT !.state = st], t)

\* currentState: a Closed breaker past its interval starts a new generation,
\* an Open breaker past its timeout becomes HalfOpen.
currentState(b, t) ==
    CASE b.state = "closed" /\ b.expiry # 0 /\ b.expiry < t ->
            toNewGeneration(b, t)
      [] b.state = "open" /\ b.expiry < t -> setState(b, "half-open", t)
      [] OTHER -> b

\* Counts.onRequest, onSuccess, onFailure
onRequest(c) == [c EXCEPT !.Requests = @ + 1]
countSuccess(c) ==
    [c EXCEPT !.TotalSuccesses = @ + 1, !.ConsecutiveSuccesses = @ + 1,
              !.ConsecutiveFailures = 0]
countFailure(c) ==
    [c EXCEPT !.TotalFailures = @ + 1, !.ConsecutiveFailures = @ + 1,
              !.ConsecutiveSuccesses = 0]

\* CircuitBreaker.onSuccess
onSuccess(b, t) ==
    LET b1 == [b EXCEPT !.counts = countSuccess(@)]
    IN  IF b.state = "half-open"
           /\ b1.counts.ConsecutiveSuccesses >= SettingsMaxRequests
        THEN setState(b1, "closed", t)
        ELSE b1

\* CircuitBreaker.onFailure
onFailure(b, t) ==
    CASE b.state = "closed" ->
            LET b1 == [b EXCEPT !.counts = countFailure(@)]
            IN  IF ReadyToTrip(b1.counts) THEN setState(b1, "open", t) ELSE b1
      [] b.state = "half-open" -> setState(b, "open", t)
      [] OTHER -> b

\* Execute, first half (beforeRequest): an Open breaker rejects with
\* ErrOpenState, a HalfOpen one that has admitted max_requests with
\* ErrTooManyRequests; otherwise the request is counted and fn is invoked.
BeforeRequest(c) ==
    /\ cpc[c] = "idle"
    /\ LET b == currentState(cb, bnow)
       IN  IF b.state = "open"
           THEN /\ cb' = b
                /\ cres' = [cres EXCEPT ![c] = "ErrOpenState"]
                /\ UNCHANGED <<cpc, cgen>>
           ELSE IF b.state = "half-open"
                   /\ b.counts.Requests >= SettingsMaxRequests
           THEN /\ cb' = b
                /\ cres' = [cres EXCEPT ![c] = "ErrTooManyRequests"]
                /\ UNCHANGED <<cpc, cgen>>
           ELSE /\ b.counts.Requests < MaxCalls
                /\ cb' = [b EXCEPT !.counts = onRequest(@)]
                /\ cpc' = [cpc EXCEPT ![c] = "running"]
                /\ cgen' = [cgen EXCEPT ![c] = b.generation]
                /\ cres' = [cres EXCEPT ![c] = None]
    /\ UNCHANGED <<notBreaker, bnow, defaultIsSuccessful, observed, seen>>

\* Execute, second half (fn returned err; afterRequest): the outcome is
\* dropped when the generation has changed since beforeRequest.
AfterRequest(c, err) ==
    /\ cpc[c] = "running"
    /\ LET b == currentState(cb, bnow)
       IN  cb' = IF b.generation # cgen[c] THEN b
                 ELSE IF CfgIsSuccessful(err) THEN onSuccess(b, bnow)
                 ELSE onFailure(b, bnow)
    /\ cpc' = [cpc EXCEPT ![c] = "idle"]
    /\ cgen' = [cgen EXCEPT ![c] = 0]
    /\ cres' = [cres EXCEPT ![c] = err]
    /\ seen' = seen \cup {err}
    /\ UNCHANGED <<notBreaker, bnow, defaultIsSuccessful, observed>>

\* CircuitBreaker.State
State ==
    /\ cb' = currentState(cb, bnow)
    /\ observed' = cb'.state
    /\ UNCHANGED <<notBreaker, bnow, defaultIsSuccessful, cpc, cgen, cres, seen>>

\* time.Now() advances by one tick.
BreakerTick ==
    /\ bnow < MaxClock
    /\ bnow' = bnow + 1
    /\ UNCHANGED <<notBreaker, cb, defaultIsSuccessful, cpc, cgen, cres, observed,
                   seen>>

\* NewCircuitBreaker(DefaultBreakerConfig(name)) after the provider package
\* has set DefaultIsSuccessful: Closed, first generation.
BreakerInit ==
    /\ bnow = 0
    /\ defaultIsSuccessful = "provider"
    /\ cb = toNewGeneration([state |-> "closed", generation |-> 0,
                             counts |-> ZeroCounts, expiry |-> 0], 0)
    /\ cpc = [c \in Callers |-> "idle"]
    /\ cgen = [c \in Callers |-> 0]
    /\ cres = [c \in Callers |-> None]
    /\ observed = "closed"
    /\ seen = {}

\* ------------------------------------------------------ retry executor

\* DefaultRetryConfig.MaxRetries
MaxRetries == 3

\* NewRetryPolicy: the builder is given the retry count, the backoff and the
\* jitter and no handle condition, so the policy handles every error.
RetryHandles(err) == err # "nil"

\* Executor.Execute, inside breaker.Execute: the retry executor starts.
ExecEnter(c) ==
    /\ cpc[c] = "running"
    /\ xpc = "idle"
    /\ xpc' = "run"
    /\ xattempts' = 0
    /\ xerr' = None
    /\ UNCHANGED notRetry

\* ExecInvoke with the breaker inside the retry loop: every attempt is
\* counted as a request.
ExecInvoke_CountsAttempt(err) ==
    /\ xpc = "run"
    /\ xattempts' = xattempts + 1
    /\ xerr' = err
    /\ xpc' = IF RetryHandles(err) /\ xattempts < MaxRetries THEN "wait"
              ELSE "done"
    /\ cb' = [cb EXCEPT !.counts = onRequest(@)]
    /\ UNCHANGED <<notRetryBreaker, bnow, defaultIsSuccessful, cpc, cgen, cres,
                   observed, seen>>

\* The retry executor invokes fn; a handled failure with retries left is
\* followed by another attempt, anything else ends the loop.
ExecInvoke(err) ==
    /\ xpc = "run"
    /\ xattempts' = xattempts + 1
    /\ xerr' = err
    /\ xpc' = IF RetryHandles(err) /\ xattempts < MaxRetries THEN "wait"
              ELSE "done"
    /\ UNCHANGED notRetry

\* The backoff delay has elapsed.
ExecBackoff ==
    /\ xpc = "wait"
    /\ xpc' = "run"
    /\ UNCHANGED <<notRetry, xattempts, xerr>>

\* Executor.Execute returns what breaker.Execute returned.
ExecReturn(c) ==
    /\ xpc = "done"
    /\ cpc[c] = "idle"
    /\ xpc' = "idle"
    /\ UNCHANGED <<notRetry, xattempts, xerr>>

\* NewExecutor: no call in progress.
RetryInit ==
    /\ xpc = "idle"
    /\ xattempts = 0
    /\ xerr = None

\* -------------------------------------------- background quota refresh

\* The refreshers RegisterAuth starts for one auth, in the order of the calls.
RidOrder == <<"r1", "r2">>
Rids == Range(RidOrder)
Started == {r \in Rids : rpc[r] # "none"}

\* context.CancelFunc: cancelling a cancelled or absent context does nothing.
Cancel(ctx, r) == IF r \in Rids THEN [ctx EXCEPT ![r] = "cancelled"] ELSE ctx

\* RegisterAuthRefresh without the call of the old cancel.
RegisterAuthRefresh_NoCancel(r) ==
    /\ Cardinality(Started) < Len(RidOrder)
    /\ r = RidOrder[Cardinality(Started) + 1]
    /\ rctx' = [rctx EXCEPT ![r] = "live"]
    /\ refreshCancel' = r
    /\ rpc' = [rpc EXCEPT ![r] = "sleep"]
    /\ dpc' = [dpc EXCEPT ![r] = "recv"]
    /\ unreg' = FALSE
    /\ UNCHANGED <<notRefresh, rsnap, rch, rclosed, rtick, dsnap, realQuota,
                   nextSnap, ticksSince>>

\* RegisterAuth for a provider whose strategy is a BackgroundRefresher: the
\* old cancel is called and replaced, StartRefresh starts the refresher and
\* the drain goroutine starts.
RegisterAuthRefresh(r) ==
    /\ Cardinality(Started) < Len(RidOrder)
    /\ r = RidOrder[Cardinality(Started) + 1]
    /\ rctx' = [Cancel(rctx, refreshCancel) EXCEPT ![r] = "live"]
    /\ refreshCancel' = r
    /\ rpc' = [rpc EXCEPT ![r] = "sleep"]
    /\ dpc' = [dpc EXCEPT ![r] = "recv"]
    /\ unreg' = FALSE
    /\ UNCHANGED <<notRefresh, rsnap, rch, rclosed, rtick, dsnap, realQuota,
                   nextSnap, ticksSince>>

\* UnregisterAuth: the cancel, if there is one, is called and deleted.
UnregisterAuthRefresh ==
    /\ rctx' = Cancel(rctx, refreshCancel)
    /\ refreshCancel' = None
    /\ unreg' = TRUE
    /\ UNCHANGED <<notRefresh, rpc, rsnap, rch, rclosed, rtick, dpc, dsnap,
                   realQuota, nextSnap, ticksSince>>

\* Process shutdown: the parent context of every refresher is cancelled.
Shutdown ==
    /\ \E r \in Rids : rctx[r] = "live"
    /\ rctx' = [r \in Rids |-> IF rctx[r] = "live" THEN "cancelled" ELSE rctx[r]]
    /\ UNCHANGED <<notRefresh, refreshCancel, rpc, rsnap, rch, rclosed, rtick, dpc,
                   dsnap, realQuota, nextSnap, unreg, ticksSince>>

\* StartRefresh: time.Sleep(jitter) returns; the ticker is created.
RefSleepDone(r) ==
    /\ rpc[r] = "sleep"
    /\ rpc' = [rpc EXCEPT ![r] = "fetch0"]
    /\ UNCHANGED <<notRefresh, refreshCancel, rctx, rsnap, rch, rclosed, rtick, dpc,
                   dsnap, realQuota, nextSnap, unreg, ticksSince>>

\* fetchAntigravityQuota returns nil, or a new snapshot if the context was
\* live during the request.
RefFetch(r) ==
    /\ rpc[r] \in {"fetch0", "fetch"}
    /\ \E got \in BOOLEAN :
          /\ got => rctx[r] = "live" /\ nextSnap < MaxSnaps
          /\ rsnap' = [rsnap EXCEPT ![r] = IF got THEN nextSnap + 1 ELSE 0]
          /\ nextSnap' = IF got THEN nextSnap + 1 ELSE nextSnap
    /\ rpc' = [rpc EXCEPT ![r] = "send"]
    /\ UNCHANGED <<notRefresh, refreshCancel, rctx, rch, rclosed, rtick, dpc, dsnap,
                   realQuota, unreg, ticksSince>>

\* select { case ch <- snapshot: default: } on the channel of capacity 1.
RefSend(r) ==
    /\ rpc[r] = "send"
    /\ rch' = [rch EXCEPT ![r] =
                 IF rsnap[r] # 0 /\ Len(@) < ChanCap THEN Append(@, rsnap[r])
                 ELSE @]
    /\ rsnap' = [rsnap EXCEPT ![r] = 0]
    /\ rpc' = [rpc EXCEPT ![r] = "loop"]
    /\ UNCHANGED <<notRefresh, refreshCancel, rctx, rclosed, rtick, dpc, dsnap,
                   realQuota, nextSnap, unreg, ticksSince>>

RefLoopDone_NoClose(r) ==
    /\ rpc[r] = "loop"
    /\ rctx[r] = "cancelled"
    /\ rpc' = [rpc EXCEPT ![r] = "exited"]
    /\ UNCHANGED <<notRefresh, refreshCancel, rctx, rsnap, rch, rclosed, rtick, dpc,
                   dsnap, realQuota, nextSnap, unreg, ticksSince>>

\* select, case <-ctx.Done(): return, and the deferred close(ch).
RefLoopDone(r) ==
    /\ rpc[r] = "loop"
    /\ rctx[r] = "cancelled"
    /\ rpc' = [rpc EXCEPT ![r] = "exited"]
    /\ rclosed' = [rclosed EXCEPT ![r] = TRUE]
    /\ UNCHANGED <<notRefresh, refreshCancel, rctx, rsnap, rch, rtick, dpc, dsnap,
                   realQuota, nextSnap, unreg, ticksSince>>

\* select, case <-ticker.C: fetch again.
RefLoopTick(r) ==
    /\ rpc[r] = "loop"
    /\ rtick[r]
    /\ rtick' = [rtick EXCEPT ![r] = FALSE]
    /\ rpc' = [rpc EXCEPT ![r] = "fetch"]
    /\ UNCHANGED <<notRefresh, refreshCancel, rctx, rsnap, rch, rclosed, dpc, dsnap,
                   realQuota, nextSnap, unreg, ticksSince>>

\* The drain goroutine: for snapshot := range ch receives a snapshot.
DrainRecv(r) ==
    /\ dpc[r] = "recv"
    /\ rch[r] # <<>>
    /\ dsnap' = [dsnap EXCEPT ![r] = Head(rch[r])]
    /\ rch' = [rch EXCEPT ![r] = Tail(@)]
    /\ dpc' = [dpc EXCEPT ![r] = "write"]
    /\ UNCHANGED <<notRefresh, refreshCancel, rctx, rpc, rsnap, rclosed, rtick,
                   realQuota, nextSnap, unreg, ticksSince>>

\* The drain goroutine: state.SetRealQuota(snapshot).
DrainWrite(r) ==
    /\ dpc[r] = "write"
    /\ realQuota' = dsnap[r]
    /\ dsnap' = [dsnap EXCEPT ![r] = 0]
    /\ dpc' = [dpc EXCEPT ![r] = "recv"]
    /\ UNCHANGED <<notRefresh, refreshCancel, rctx, rpc, rsnap, rch, rclosed, rtick,
                   nextSnap, unreg, ticksSince>>

\* The drain goroutine: the channel is closed and empty, the range ends.
DrainExit(r) ==
    /\ dpc[r] = "recv"
    /\ rch[r] = <<>>
    /\ rclosed[r]
    /\ dpc' = [dpc EXCEPT ![r] = "exited"]
    /\ UNCHANGED <<notRefresh, refreshCancel, rctx, rpc, rsnap, rch, rclosed, rtick,
                   dsnap, realQuota, nextSnap, unreg, ticksSince>>

\* The goroutines of refresher r that can take a step now. The jitter sleep
\* (under 30 s) and a fetch (10 s timeout) end before a tick (2 min) passes.
RefRunnable(r) ==
    \/ rpc[r] \in {"sleep", "fetch0", "fetch", "send"}
    \/ rpc[r] = "loop" /\ (rctx[r] = "cancelled" \/ rtick[r])
DrainRunnable(r) ==
    \/ dpc[r] = "write"
    \/ dpc[r] = "recv" /\ (rch[r] # <<>> \/ rclosed[r])

\* Whether refresher r and its drain goroutine are gone.
Released(r) == rpc[r] = "exited" /\ rclosed[r] /\ dpc[r] = "exited"

\* One ticker period passes: every goroutine that could run has run.
TickerFire ==
    /\ \A r \in Rids : ~RefRunnable(r) /\ ~DrainRunnable(r)
    /\ \E r \in Rids : rpc[r] = "loop" \/ (rctx[r] = "cancelled" /\ ticksSince[r] = 0)
    /\ rtick' = [r \in Rids |-> rtick[r] \/ rpc[r] = "loop"]
    /\ ticksSince' = [r \in Rids |->
                        IF rctx[r] = "cancelled" THEN 1 ELSE ticksSince[r]]
    /\ UNCHANGED <<notRefresh, refreshCancel, rctx, rpc, rsnap, rch, rclosed, dpc,
                   dsnap, realQuota, nextSnap, unreg>>

\* No auth registered yet.
RefreshInit ==
    /\ refreshCancel = None
    /\ rctx = [r \in Rids |-> "none"]
    /\ rpc = [r \in Rids |-> "none"]
    /\ rsnap = [r \in Rids |-> 0]
    /\ rch = [r \in Rids |-> <<>>]
    /\ rclosed = [r \in Rids |-> FALSE]
    /\ rtick = [r \in Rids |-> FALSE]
    /\ dpc = [r \in Rids |-> "none"]
    /\ dsnap = [r \in Rids |-> 0]
    /\ realQuota = 0
    /\ nextSnap = 0
    /\ unreg = FALSE
    /\ ticksSince = [r \in Rids |-> 0]

\* ------------------------------------------------ SanitizeUndefinedValues

\* JSON values: null, strings, objects (maps from keys) and arrays.
JNull == [t |-> "null", v |-> ""]
JStr(x) == [t |-> "str", v |-> x]
JObj(f) == [t |-> "obj", v |-> f]
JArr(q) == [t |-> "arr", v |-> q]

\* The strings of the payloads: the placeholder, a string that contains it,
\* and one that does not; the keys: a plain one and the placeholder.
Strs == {"[undefined]", "x[undefined]", "ok"}
Keys == {"a", "[undefined]"}

\* strings.Contains(s, "[undefined]")
HasPlaceholder(x) == x \in {"[undefined]", "x[undefined]"}

MapsTo(V) == UNION {[D -> V] : D \in SUBSET Keys}
ArraysOf(V) == UNION {[1..n -> V] : n \in 0..MaxItems}
Level0 == {JNull} \cup {JStr(x) : x \in Strs}
Level1 ==
    Level0 \cup {JObj(f) : f \in MapsTo(Level0)} \cup {JArr(q) : q \in ArraysOf(Level0)}
Level2 == {JObj(f) : f \in MapsTo(Level1)} \cup {JArr(q) : q \in ArraysOf(Level1)}

\* A payload: its JSON value and whether its bytes are json.Marshal's output.
Payloads == [val : Level2, canon : BOOLEAN]

\* strings.Contains(string(payload), "[undefined]"): some key or string of
\* the text contains the placeholder.
RECURSIVE ContainsPlaceholder(_)
ContainsPlaceholder(j) ==
    CASE j.t = "str" -> HasPlaceholder(j.v)
      [] j.t = "obj" -> \E k \in DOMAIN j.v :
                            HasPlaceholder(k) \/ ContainsPlaceholder(j.v[k])
      [] j.t = "arr" -> \E i \in DOMAIN j.v : ContainsPlaceholder(j.v[i])
      [] OTHER -> FALSE

\* child.(string) == "[undefined]"
IsUndefined(j) == j.t = "str" /\ j.v = "[undefined]"

\* cleanUndefinedRecursive on the value gjson returns; JNull stands for the
\* nil interface, JArr(<<>>) for the nil slice the array case starts from.
RECURSIVE cleanUndefinedRecursive(_)
RECURSIVE cleanItems(_)
cleanItems(q) ==
    IF q = <<>> THEN <<>>
    ELSE LET item == Head(q)
             rest == cleanItems(Tail(q))
         IN  IF IsUndefined(item) THEN rest
             ELSE IF cleanUndefinedRecursive(item) # JNull
             THEN <<cleanUndefinedRecursive(item)>> \o rest
             ELSE rest
cleanUndefinedRecursive(j) ==
    CASE j.t = "obj" ->
            LET kept == {k \in DOMAIN j.v :
                            /\ ~IsUndefined(j.v[k])
                            /\ cleanUndefinedRecursive(j.v[k]) # JNull}
            IN  IF kept = {} THEN JNull
                ELSE JObj([k \in kept |-> cleanUndefinedRecursive(j.v[k])])
      [] j.t = "arr" -> JArr(cleanItems(j.v))
      [] OTHER -> j

\* json.Marshal: a nil slice is written as null.
RECURSIVE Marshal(_)
Marshal(g) ==
    CASE g.t = "obj" -> JObj([k \in DOMAIN g.v |-> Marshal(g.v[k])])
      [] g.t = "arr" ->
            IF g.v = <<>> THEN JNull
            ELSE JArr([i \in DOMAIN g.v |-> Marshal(g.v[i])])
      [] OTHER -> g

\* SanitizeUndefinedValues
SanitizeUndefinedValues(p) ==
    IF ~ContainsPlaceholder(p.val) THEN p
    ELSE IF p.val.t \notin {"obj", "arr"} THEN p
    ELSE LET cleaned == cleanUndefinedRecursive(p.val)
         IN  IF cleaned = JNull THEN p
             ELSE [val |-> Marshal(cleaned), canon |-> TRUE]

\* The payload goes through SanitizeUndefinedValues, and so does the result.
Sanitize ==
    /\ sanPc = 0
    /\ sanOut' = SanitizeUndefinedValues(sanIn)
    /\ sanPc' = 1
    /\ UNCHANGED <<notSanitize, sanIn, sanOut2>>

SanitizeAgain ==
    /\ sanPc = 1
    /\ sanOut2' = SanitizeUndefinedValues(sanOut)
    /\ sanPc' = 2
    /\ UNCHANGED <<notSanitize, sanIn, sanOut>>

\* No payload at hand.
SanitizeIdle ==
    /\ sanPc = 0
    /\ sanIn = [val |-> JObj(<<>>), canon |-> TRUE]
    /\ sanOut = sanIn
    /\ sanOut2 = sanIn

\* ------------------------------------------------------- tool-call ids

\* Ids are sequences of characters.
TooluPrefix == <<"t", "o", "o", "l", "u", "_">>
CallPrefix == <<"c", "a", "l", "l", "_">>

\* The ids: up to two leading pieces (a prefix, a prefix without its
\* underscore, or nothing) followed by a short tail.
Pieces == {<<>>, TooluPrefix, CallPrefix, <<"t", "o", "o", "l", "u">>,
           <<"c", "a", "l", "l">>}
Tails == UNION {[1..n -> {"a", "_"}] : n \in 0..MaxTail}
ToolIDs == {p1 \o p2 \o t : p1 \in Pieces, p2 \in Pieces, t \in Tails}

\* id[n:]
From(id, n) == SubSeq(id, n + 1, Len(id))

\* toClaudeToolID
toClaudeToolID(id) ==
    IF Len(id) > 6 /\ SubSeq(id, 1, 6) = TooluPrefix THEN id
    ELSE IF Len(id) > 5 /\ SubSeq(id, 1, 5) = CallPrefix
    THEN TooluPrefix \o From(id, 5)
    ELSE TooluPrefix \o id

\* The conversion to the OpenAI form, the mirror image of toClaudeToolID.
toOpenAIToolID(id) ==
    IF Len(id) > 5 /\ SubSeq(id, 1, 5) = CallPrefix THEN id
    ELSE IF Len(id) > 6 /\ SubSeq(id, 1, 6) = TooluPrefix
    THEN CallPrefix \o From(id, 6)
    ELSE CallPrefix \o id

\* The id is converted to the other form.
ConvertToolID ==
    /\ tidPc = 0
    /\ tidOut' = IF tidDir = "openai_first" THEN toOpenAIToolID(tidIn)
                 ELSE toClaudeToolID(tidIn)
    /\ tidPc' = 1
    /\ UNCHANGED <<notToolId, tidDir, tidIn, tidBack>>

\* The converted id is converted back.
ConvertToolIDBack ==
    /\ tidPc = 1
    /\ tidBack' = IF tidDir = "openai_first" THEN toClaudeToolID(tidOut)
                  ELSE toOpenAIToolID(tidOut)
    /\ tidPc' = 2
    /\ UNCHANGED <<notToolId, tidDir, tidIn, tidOut>>

\* No id at hand.
ToolIdIdle ==
    /\ tidPc = 0
    /\ tidDir = "openai_first"
    /\ tidIn = <<>>
    /\ tidOut = <<>>
    /\ tidBack = <<>>

\* ------------------------------------------------- Cloud Code envelope

\* A payload is its bytes: optional surrounding white space and a body, which
\* is no bytes at all or the text of a JSON value.
NoBytes == [t |-> "empty", v |-> ""]
EnvKeys == {"request", "response", "contents"}
EnvValues == {JNull, JStr("ok"), JObj([k \in {"request"} |-> JStr("ok")])}
EnvBodies ==
    {NoBytes, JStr("request"), JArr(<<>>)}
        \cup {JObj(f) : f \in UNION {[D -> EnvValues] : D \in SUBSET EnvKeys}}
EnvPayloads == [pad : BOOLEAN, body : EnvBodies]

\* parsed.Get(key).Exists()
Exists(body, key) == body.t = "obj" /\ key \in DOMAIN body.v

IsEnvelopeWrapped_RequestOnly(payload) ==
    IF payload.body = NoBytes THEN FALSE
    ELSE IF payload.body.t # "obj" THEN FALSE
    ELSE Exists(payload.body, "request")

\* IsEnvelopeWrapped: FALSE for no bytes, for white space only and for a text
\* that does not start with a brace.
IsEnvelopeWrapped(payload) ==
    IF payload.body = NoBytes THEN FALSE
    ELSE IF payload.body.t # "obj" THEN FALSE
    ELSE Exists(payload.body, "request") \/ Exists(payload.body, "response")

\* sseutil.WrapEnvelope: {"request": <payload>}
WrapEnvelope(payload) ==
    [pad |-> FALSE, body |-> JObj([k \in {"request"} |-> payload.body])]

RequestEnvelope(payload) == WrapEnvelope(payload)

EnsureRequestEnvelope(payload) ==
    IF IsEnvelopeWrapped(payload) THEN payload ELSE RequestEnvelope(payload)

\* The executor wraps the payload.
Ensure ==
    /\ envPc = 0
    /\ envOut' = EnsureRequestEnvelope(envIn)
    /\ envPc' = 1
    /\ UNCHANGED <<notEnvelope, envIn, envOut2>>

\* The result is handed to EnsureRequestEnvelope once more.
EnsureAgain ==
    /\ envPc = 1
    /\ envOut2' = EnsureRequestEnvelope(envOut)
    /\ envPc' = 2
    /\ UNCHANGED <<notEnvelope, envIn, envOut>>

\* No payload at hand.
EnvelopeIdle ==
    /\ envPc = 0
    /\ envIn = [pad |-> FALSE, body |-> NoBytes]
    /\ envOut = envIn
    /\ envOut2 = envIn

\* ------------------------------------------------------- payload rules

\* strings.TrimSpace on a sequence of characters
RECURSIVE TrimLeft(_)
TrimLeft(str) ==
    IF str # <<>> /\ Head(str) = " " THEN TrimLeft(Tail(str)) ELSE str
RECURSIVE TrimRight(_)
TrimRight(str) ==
    IF str # <<>> /\ Last(str) = " " THEN TrimRight(Front(str)) ELSE str
TrimSpace(str) == TrimRight(TrimLeft(str))

\* The trailing loop of MatchModelPattern: skip the stars at pi.
RECURSIVE SkipStars(_, _)
SkipStars(pattern, pi) ==
    IF pi < Len(pattern) /\ pattern[pi + 1] = "*"
    THEN SkipStars(pattern, pi + 1)
    ELSE pi

\* The main loop of MatchModelPattern; indices count from 0 as in the code.
RECURSIVE MatchLoop(_, _, _, _, _, _)
MatchLoop(pattern, model, pi, si, starIdx, matchIdx) ==
    IF si < Len(model)
    THEN IF pi < Len(pattern) /\ pattern[pi + 1] = model[si + 1]
         THEN MatchLoop(pattern, model, pi + 1, si + 1, starIdx, matchIdx)
         ELSE IF pi < Len(pattern) /\ pattern[pi + 1] = "*"
         THEN MatchLoop(pattern, model, pi + 1, si, pi, si)
         ELSE IF starIdx # -1
         THEN MatchLoop(pattern, model, starIdx + 1, matchIdx + 1,
                        starIdx, matchIdx + 1)
         ELSE FALSE
    ELSE SkipStars(pattern, pi) = Len(pattern)

MatchModelPattern(pattern, model) ==
    LET pat == TrimSpace(pattern)
        mdl == TrimSpace(model)
    IN  IF pat = <<>> THEN FALSE
        ELSE IF pat = <<"*">> THEN TRUE
        ELSE MatchLoop(pat, mdl, 0, 0, -1, 0)

\* strings.EqualFold on the protocol tags in use
Fold(tag) == IF tag = "Claude" THEN "claude" ELSE tag
EqualFold(t1, t2) == Fold(t1) = Fold(t2)

\* payloadRuleMatchesModel: the first entry with a name, a compatible
\* protocol and a matching pattern decides.
RECURSIVE payloadRuleMatchesModel(_, _, _)
payloadRuleMatchesModel(entries, model, protocol) ==
    IF entries = <<>> THEN FALSE
    ELSE LET entry == Head(entries)
             name == TrimSpace(entry.Name)
             ep == entry.Protocol
         IN  IF name = <<>>
             THEN payloadRuleMatchesModel(Tail(entries), model, protocol)
             ELSE IF ep # "" /\ protocol # "" /\ ~EqualFold(ep, protocol)
             THEN payloadRuleMatchesModel(Tail(entries), model, protocol)
             ELSE IF MatchModelPattern(name, model) THEN TRUE
             ELSE payloadRuleMatchesModel(Tail(entries), model, protocol)

\* A pth is its sequence of keys; the empty sequence is the empty string.
buildPayloadPath(root, pth) ==
    IF root = <<>> THEN pth
    ELSE IF pth = <<>> THEN root
    ELSE root \o pth

JNum(n) == [t |-> "num", v |-> n]
Missing == [t |-> "missing", v |-> ""]

\* gjson.GetBytes(out, pth)
RECURSIVE GetBytes(_, _)
GetBytes(j, pth) ==
    IF pth = <<>> THEN j
    ELSE IF j.t = "obj" /\ Head(pth) \in DOMAIN j.v
    THEN GetBytes(j.v[Head(pth)], Tail(pth))
    ELSE Missing

\* sjson below the top level: a value that is not an object is replaced by
\* an object that holds the rest of the pth.
RECURSIVE SetIn(_, _, _)
SetIn(j, pth, value) ==
    IF pth = <<>> THEN value
    ELSE LET old == IF j.t = "obj" THEN j.v ELSE <<>>
             k == Head(pth)
             child == IF j.t = "obj" /\ k \in DOMAIN j.v THEN j.v[k]
                      ELSE Missing
         IN  JObj([x \in (IF j.t = "obj" THEN DOMAIN j.v ELSE {}) \cup {k} |->
                     IF x = k THEN SetIn(child, Tail(pth), value)
                     ELSE old[x]])

\* sjson.SetBytes(out, pth, value): an array takes no key.
SetBytes(out, pth, value) ==
    IF out.t = "arr" THEN [err |-> TRUE, updated |-> out]
    ELSE [err |-> FALSE, updated |-> SetIn(out, pth, value)]

\* The loop over rule.Params, in the order the map iteration takes; a
\* default is set only where the pth does not exist.
RECURSIVE ApplyParams(_, _, _, _)
ApplyParams(out, params, root, onlyAbsent) ==
    IF params = <<>> THEN out
    ELSE LET fullPath == buildPayloadPath(root, Head(params).path)
             set == SetBytes(out, fullPath, Head(params).value)
             next == IF fullPath = <<>> THEN out
                     ELSE IF onlyAbsent /\ GetBytes(out, fullPath) # Missing
                     THEN out
                     ELSE IF set.err THEN out
                     ELSE set.updated
         IN  ApplyParams(next, Tail(params), root, onlyAbsent)

\* The loop over the rules of one kind.
RECURSIVE ApplyRules(_, _, _, _, _, _)
ApplyRules(out, rules, model, protocol, root, onlyAbsent) ==
    IF rules = <<>> THEN out
    ELSE LET rule == Head(rules)
             next == IF ~payloadRuleMatchesModel(rule.Models, model, protocol)
                     THEN out
                     ELSE ApplyParams(out, rule.Params, root, onlyAbsent)
         IN  ApplyRules(next, Tail(rules), model, protocol, root, onlyAbsent)

ApplyPayloadConfigWithRoot_DefaultsAlwaysSet(cfg, model, protocol, root, payload) ==
    IF payload = NoBytes THEN payload
    ELSE IF cfg.Default = <<>> /\ cfg.Override = <<>> THEN payload
    ELSE IF TrimSpace(model) = <<>> THEN payload
    ELSE LET mdl == TrimSpace(model)
             defaulted == ApplyRules(payload, cfg.Default, mdl, protocol,
                                     root, FALSE)
         IN  ApplyRules(defaulted, cfg.Override, mdl, protocol, root, FALSE)

\* ApplyPayloadConfigWithRoot: the defaults first, then the overrides.
ApplyPayloadConfigWithRoot(cfg, model, protocol, root, payload) ==
    IF payload = NoBytes THEN payload
    ELSE IF cfg.Default = <<>> /\ cfg.Override = <<>> THEN payload
    ELSE IF TrimSpace(model) = <<>> THEN payload
    ELSE LET mdl == TrimSpace(model)
             defaulted == ApplyRules(payload, cfg.Default, mdl, protocol,
                                     root, TRUE)
         IN  ApplyRules(defaulted, cfg.Override, mdl, protocol, root, FALSE)

ApplyPayloadConfig(cfg, model, payload) ==
    ApplyPayloadConfigWithRoot(cfg, model, "", <<>>, payload)

\* The configurations: each rule has at most one model entry and names the
\* paths a and a.b in the order the map iteration visits them; the rule at
\* place i sets the number 10 + i as a default and 20 + i as an override.
ModelEntries ==
    {[Name |-> <<"*">>, Protocol |-> ""],
     [Name |-> <<"g", "*", " ">>, Protocol |-> "Claude"]}
RuleModels == {<<>>} \cup {<<e>> : e \in ModelEntries}
ParamOrders == {<<<<"a">>>>, <<<<"a", "b">>>>,
                <<<<"a">>, <<"a", "b">>>>, <<<<"a", "b">>, <<"a">>>>}
RuleShapes == [Models : RuleModels, Params : ParamOrders]
ShapeLists == UNION {[1..n -> RuleShapes] : n \in 0..MaxRules}
Rules(shapes, base) ==
    [i \in 1..Len(shapes) |->
        [Models |-> shapes[i].Models,
         Params |-> [j \in 1..Len(shapes[i].Params) |->
                        [path |-> shapes[i].Params[j],
                         value |-> JNum(base + i)]]]]
ModelNames == {<<"g", "1">>, <<"c">>, <<" ">>}
RulePayloads ==
    {NoBytes, JArr(<<>>), JObj(<<>>),
     JObj([k \in {"a"} |-> JNum(0)]),
     JObj([k \in {"a"} |-> JObj([k2 \in {"b"} |-> JNum(0)])])}

\* The executor applies the rules to the payload.
ApplyPayload ==
    /\ plPc = 0
    /\ plOut' = ApplyPayloadConfig(plCfg, plModel, plIn)
    /\ plPc' = 1
    /\ UNCHANGED <<notPayload, plCfg, plModel, plIn>>

\* No payload at hand and no rules.
PayloadIdle ==
    /\ plPc = 0
    /\ plCfg = [Default |-> <<>>, Override |-> <<>>]
    /\ plModel = <<>>
    /\ plIn = NoBytes
    /\ plOut = NoBytes

\* ------------------------------------------------- translator registry

RegKeys == {"openai", "claude"}
RegEntries == {"e1", "e2"}

NoLookup == [op |-> None, key |-> None, ok |-> FALSE, entry |-> None,
             failed |-> FALSE]

\* m[key] = entry on a Go map
MapSet(m, key, entry) ==
    [x \in DOMAIN m \cup {key} |-> IF x = key THEN entry ELSE m[x]]

\* entry, ok := m[key]
MapGet(m, key) ==
    IF key \in DOMAIN m THEN [entry |-> m[key], ok |-> TRUE]
    ELSE [entry |-> None, ok |-> FALSE]

RegisterToIR(key, parser) ==
    /\ Len(regLog) < MaxRegs
    /\ toIR' = MapSet(toIR, key, parser)
    /\ regLog' = Append(regLog, [map |-> "toIR", key |-> key, entry |-> parser])
    /\ lookup' = NoLookup
    /\ UNCHANGED <<notRegistry, fromIR>>

RegisterFromIR(key, converter) ==
    /\ Len(regLog) < MaxRegs
    /\ fromIR' = MapSet(fromIR, key, converter)
    /\ regLog' = Append(regLog, [map |-> "fromIR", key |-> key, entry |-> converter])
    /\ lookup' = NoLookup
    /\ UNCHANGED <<notRegistry, toIR>>

GetToIR_AnyParser(key) ==
    /\ lookup' = IF key \in DOMAIN toIR \/ toIR = <<>>
                 THEN [op |-> "GetToIR", key |-> key, ok |-> MapGet(toIR, key).ok,
                       entry |-> MapGet(toIR, key).entry, failed |-> FALSE]
                 ELSE [op |-> "GetToIR", key |-> key, ok |-> TRUE,
                       entry |-> toIR[CHOOSE x \in DOMAIN toIR : TRUE],
                       failed |-> FALSE]
    /\ UNCHANGED <<notRegistry, toIR, fromIR, regLog>>

\* GetToIR: the parser and whether it was found.
GetToIR(key) ==
    /\ lookup' = [op |-> "GetToIR", key |-> key, ok |-> MapGet(toIR, key).ok,
                  entry |-> MapGet(toIR, key).entry, failed |-> FALSE]
    /\ UNCHANGED <<notRegistry, toIR, fromIR, regLog>>

GetFromIR(key) ==
    /\ lookup' = [op |-> "GetFromIR", key |-> key, ok |-> MapGet(fromIR, key).ok,
                  entry |-> MapGet(fromIR, key).entry, failed |-> FALSE]
    /\ UNCHANGED <<notRegistry, toIR, fromIR, regLog>>

\* MustGetToIR: panics when the format is not registered.
MustGetToIR(key) ==
    /\ lookup' = [op |-> "MustGetToIR", key |-> key, ok |-> MapGet(toIR, key).ok,
                  entry |-> MapGet(toIR, key).entry,
                  failed |-> ~MapGet(toIR, key).ok]
    /\ UNCHANGED <<notRegistry, toIR, fromIR, regLog>>

MustGetFromIR(key) ==
    /\ lookup' = [op |-> "MustGetFromIR", key |-> key,
                  ok |-> MapGet(fromIR, key).ok,
                  entry |-> MapGet(fromIR, key).entry,
                  failed |-> ~MapGet(fromIR, key).ok]
    /\ UNCHANGED <<notRegistry, toIR, fromIR, regLog>>

\* ParseRequest: an error when the format is not registered, else the
\* request as parsed by the format's parser.
ParseRequest(key) ==
    /\ lookup' = [op |-> "ParseRequest", key |-> key, ok |-> MapGet(toIR, key).ok,
                  entry |-> MapGet(toIR, key).entry,
                  failed |-> ~MapGet(toIR, key).ok]
    /\ UNCHANGED <<notRegistry, toIR, fromIR, regLog>>

\* newTestRegistry: empty maps.
RegistryInit ==
    /\ toIR = <<>>
    /\ fromIR = <<>>
    /\ regLog = <<>>
    /\ lookup = NoLookup

\* ------------------------------------------------------ usage backend

UsageCallers == {"u1", "u2"}

\* A request handler calls Enqueue with a new record.
EnqueueCall(u) ==
    /\ upc[u] = "idle"
    /\ nextRecord < MaxRecords
    /\ nextRecord' = nextRecord + 1
    /\ urec' = [urec EXCEPT ![u] = nextRecord + 1]
    /\ upc' = [upc EXCEPT ![u] = "enqueue"]
    /\ UNCHANGED <<notUsage, stopVars, recordChan, batch, written, dropped>>

Enqueue_BlockingSend(u) ==
    /\ upc[u] = "enqueue"
    /\ Len(recordChan) < QueueCap
    /\ recordChan' = Append(recordChan, urec[u])
    /\ upc' = [upc EXCEPT ![u] = "idle"]
    /\ UNCHANGED <<notUsage, stopVars, batch, written, dropped, urec, nextRecord>>

\* Enqueue's select: send if the channel has room, else the default case
\* drops the record; either way the call returns.
Enqueue(u) ==
    /\ upc[u] = "enqueue"
    /\ IF Len(recordChan) < QueueCap
       THEN /\ recordChan' = Append(recordChan, urec[u])
            /\ UNCHANGED dropped
       ELSE /\ dropped' = dropped \cup {urec[u]}
            /\ UNCHANGED recordChan
    /\ upc' = [upc EXCEPT ![u] = "idle"]
    /\ UNCHANGED <<notUsage, stopVars, batch, written, urec, nextRecord>>

\* writeLoop receives a record and flushes a full batch.
WriteLoopReceive ==
    /\ wlPc = "loop"
    /\ recordChan # <<>>
    /\ recordChan' = Tail(recordChan)
    /\ IF Len(batch) + 1 >= BatchSize
       THEN /\ written' = written \o Append(batch, Head(recordChan))
            /\ batch' = <<>>
       ELSE /\ batch' = Append(batch, Head(recordChan))
            /\ UNCHANGED written
    /\ UNCHANGED <<notUsage, stopVars, dropped, upc, urec, nextRecord>>

\* writeLoop on a tick of the flush ticker.
WriteLoopFlush ==
    /\ wlPc = "loop"
    /\ batch # <<>>
    /\ written' = written \o batch
    /\ batch' = <<>>
    /\ UNCHANGED <<notUsage, stopVars, recordChan, dropped, upc, urec, nextRecord>>

\* writeLoop's select takes the stopChan case.
WriteLoopStop ==
    /\ wlPc = "loop"
    /\ stopClosed
    /\ wlPc' = "drain"
    /\ UNCHANGED <<notUsage, recordChan, batch, written, dropped, upc, urec,
                   nextRecord, stopClosed, stopPc, stopCalls, fpc, fbatch,
                   acceptedAtStop>>

\* writeLoop after stop: one more record is drained, a full batch flushed.
WriteLoopDrainRecv ==
    /\ wlPc = "drain"
    /\ recordChan # <<>>
    /\ recordChan' = Tail(recordChan)
    /\ IF Len(batch) + 1 >= BatchSize
       THEN /\ written' = written \o Append(batch, Head(recordChan))
            /\ batch' = <<>>
       ELSE /\ batch' = Append(batch, Head(recordChan))
            /\ UNCHANGED written
    /\ UNCHANGED <<notUsage, stopVars, dropped, upc, urec, nextRecord>>

\* writeLoop after stop: the channel is empty, the rest is flushed, the
\* goroutine returns and wg.Done runs.
WriteLoopDrainDone ==
    /\ wlPc = "drain"
    /\ recordChan = <<>>
    /\ written' = written \o batch
    /\ batch' = <<>>
    /\ wlPc' = "exited"
    /\ UNCHANGED <<notUsage, recordChan, dropped, upc, urec, nextRecord,
                   stopClosed, stopPc, stopCalls, fpc, fbatch, acceptedAtStop>>

\* Stop: the first call closes stopChan inside stopOnce.Do and waits for
\* the workers; a later call finds the Once done and returns at once.
StopCall ==
    /\ stopCalls < MaxStops
    /\ stopPc # "waiting"
    /\ stopCalls' = stopCalls + 1
    /\ IF stopPc = "idle"
       THEN /\ stopClosed' = TRUE
            /\ stopPc' = "waiting"
            /\ acceptedAtStop' = Range(recordChan) \cup Range(batch)
                                    \cup Range(fbatch) \cup Range(written)
       ELSE UNCHANGED <<stopClosed, stopPc, acceptedAtStop>>
    /\ UNCHANGED <<notUsage, recordChan, batch, written, dropped, upc, urec,
                   nextRecord, wlPc, fpc, fbatch>>

\* Stop: wg.Wait returns once writeLoop has exited; the pool is closed and
\* Stop returns.
StopReturn ==
    /\ stopPc = "waiting"
    /\ wlPc = "exited"
    /\ stopPc' = "returned"
    /\ UNCHANGED <<notUsage, recordChan, batch, written, dropped, upc, urec,
                   nextRecord, stopClosed, stopCalls, wlPc, fpc, fbatch,
                   acceptedAtStop>>

\* Flush is called: an empty batch of its own.
FlushCall ==
    /\ fpc = "idle"
    /\ fpc' = "drain"
    /\ fbatch' = <<>>
    /\ UNCHANGED <<notUsage, recordChan, batch, written, dropped, upc, urec,
                   nextRecord, stopClosed, stopPc, stopCalls, wlPc,
                   acceptedAtStop>>

\* Flush receives a record; a full batch is handed to writeBatch, and Flush
\* returns if that fails.
FlushRecv ==
    /\ fpc = "drain"
    /\ recordChan # <<>>
    /\ recordChan' = Tail(recordChan)
    /\ IF Len(fbatch) + 1 >= BatchSize
       THEN /\ written' = written \o Append(fbatch, Head(recordChan))
            /\ fbatch' = <<>>
            /\ \E failed \in BOOLEAN : fpc' = IF failed THEN "idle" ELSE "drain"
       ELSE /\ fbatch' = Append(fbatch, Head(recordChan))
            /\ UNCHANGED <<written, fpc>>
    /\ UNCHANGED <<notUsage, batch, dropped, upc, urec, nextRecord, stopClosed,
                   stopPc, stopCalls, wlPc, acceptedAtStop>>

\* Flush finds the channel empty: the rest of its batch is handed to
\* writeBatch and Flush returns.
FlushDone ==
    /\ fpc = "drain"
    /\ recordChan = <<>>
    /\ written' = written \o fbatch
    /\ fbatch' = <<>>
    /\ fpc' = "idle"
    /\ UNCHANGED <<notUsage, recordChan, batch, dropped, upc, urec, nextRecord,
                   stopClosed, stopPc, stopCalls, wlPc, acceptedAtStop>>

\* NewPostgresBackend and Start: an empty channel, an empty batch.
UsageInit ==
    /\ recordChan = <<>>
    /\ batch = <<>>
    /\ written = <<>>
    /\ dropped = {}
    /\ upc = [u \in UsageCallers |-> "idle"]
    /\ urec = [u \in UsageCallers |-> 0]
    /\ nextRecord = 0
    /\ stopClosed = FALSE
    /\ stopPc = "idle"
    /\ stopCalls = 0
    /\ wlPc = "loop"
    /\ fpc = "idle"
    /\ fbatch = <<>>
    /\ acceptedAtStop = {}

\* ------------------------------------------------ token refresh group

FlightCallers == {"t1", "t2", "t3"}
FlightKeys == {"authA", "authB"}
FnErrors == {"nil", "failed", "deadline"}

NoResult == [val |-> 0, err |-> None]

DoKey_OneKey(key) == "authA"

\* The key TokenRefreshGroup.Do hands to the single-flight group.
DoKey(key) == key

\* singleflight.Group.Do, on entry: join the call in flight for the key, or
\* start one and run the function.
DoEnter(c, key) ==
    /\ tpc[c] = "idle"
    /\ tkey' = [tkey EXCEPT ![c] = key]
    /\ tres' = [tres EXCEPT ![c] = NoResult]
    /\ IF sfm[DoKey(key)] # 0
       THEN /\ tcall' = [tcall EXCEPT ![c] = sfm[DoKey(key)]]
            /\ tpc' = [tpc EXCEPT ![c] = "wait"]
            /\ UNCHANGED <<sfm, sfCalls>>
       ELSE /\ Len(sfCalls) < MaxRuns
            /\ sfCalls' = Append(sfCalls, [key |-> DoKey(key), auth |-> key,
                                            val |-> 0, err |-> None,
                                            done |-> FALSE])
            /\ sfm' = [sfm EXCEPT ![DoKey(key)] = Len(sfCalls) + 1]
            /\ tcall' = [tcall EXCEPT ![c] = Len(sfCalls) + 1]
            /\ tpc' = [tpc EXCEPT ![c] = "run"]
    /\ UNCHANGED notFlight

\* The function returns (with "deadline" when its 30 s context ran out):
\* the call keeps its result, leaves the map and wakes the waiters; the
\* caller that ran it returns the result.
FnReturn(c, err) ==
    /\ tpc[c] = "run"
    /\ sfCalls' = [sfCalls EXCEPT ![tcall[c]] =
                      [@ EXCEPT !.val = tcall[c], !.err = err, !.done = TRUE]]
    /\ sfm' = [k \in FlightKeys |-> IF sfm[k] = tcall[c] THEN 0 ELSE sfm[k]]
    /\ tres' = [tres EXCEPT ![c] = [val |-> tcall[c], err |-> err]]
    /\ tpc' = [tpc EXCEPT ![c] = "done"]
    /\ UNCHANGED <<notFlight, tkey, tcall>>

\* A caller that joined returns once the call is done.
WaitReturn(c) ==
    /\ tpc[c] = "wait"
    /\ sfCalls[tcall[c]].done
    /\ tres' = [tres EXCEPT ![c] = [val |-> sfCalls[tcall[c]].val,
                                    err |-> sfCalls[tcall[c]].err]]
    /\ tpc' = [tpc EXCEPT ![c] = "done"]
    /\ UNCHANGED <<notFlight, sfm, sfCalls, tkey, tcall>>

\* The caller goes on and may call Do again.
DoneReset(c) ==
    /\ tpc[c] = "done"
    /\ tpc' = [tpc EXCEPT ![c] = "idle"]
    /\ UNCHANGED <<notFlight, sfm, sfCalls, tkey, tcall, tres>>

\* NewTokenRefreshGroup: no call in flight.
FlightInit ==
    /\ sfm = [k \in FlightKeys |-> 0]
    /\ sfCalls = <<>>
    /\ tpc = [c \in FlightCallers |-> "idle"]
    /\ tkey = [c \in FlightCallers |-> "authA"]
    /\ tcall = [c \in FlightCallers |-> 0]
    /\ tres = [c \in FlightCallers |-> NoResult]

\* ------------------------------------------------------------ backoff

\* A value as a signed integer of IntBits bits keeps it.
Wrap(x) == ((x + 2^(IntBits - 1)) % 2^IntBits) - 2^(IntBits - 1)

\* 1<<attempt on an int: 0 once the shift count reaches the width.
ShiftOne(attempt) == IF attempt >= IntBits THEN 0 ELSE Wrap(2^attempt)

\* CalculateBackoff, with jitterAmount the value rand.Int64N(jitterDelay)
\* returned (0 when jitterDelay is 0 and it is not called).
CalculateBackoff(attempt, baseDelay, maxDelay, jitterDelay, jitterAmount) ==
    LET delay == Wrap(baseDelay * ShiftOne(attempt))
        capped == IF delay > maxDelay THEN maxDelay ELSE delay
        jittered == Wrap(capped + jitterAmount)
    IN  IF jitterDelay > 0
        THEN IF jittered > maxDelay THEN maxDelay ELSE jittered
        ELSE capped

\* A caller computes the delay before an attempt.
Backoff ==
    /\ boPc = 0
    /\ \E jitterAmount \in 0..Max(boJitter - 1, 0) :
          boOut' = CalculateBackoff(boAttempt, boBase, boMax, boJitter,
                                    jitterAmount)
    /\ boPc' = 1
    /\ UNCHANGED <<notBackoff, boAttempt, boBase, boMax, boJitter>>

\* No delay asked for.
BackoffIdle ==
    /\ boPc = 0
    /\ boAttempt = 0
    /\ boBase = 1
    /\ boMax = 1
    /\ boJitter = 0
    /\ boOut = 0

\* ------------------------------------------------- WaitWithContext

\* The two channels of the select.
CtxDone == wCancelled
TimerFired == wElapsed >= wDelay

\* WaitWithContext up to the select: no wait for a delay <= 0, else a timer.
WaitCall ==
    /\ wPc = "idle"
    /\ wAtCall' = wCancelled
    /\ IF wDelay <= 0
       THEN wPc' = "returned" /\ wRet' = "nil"
       ELSE wPc' = "timer" /\ UNCHANGED wRet
    /\ UNCHANGED <<notWait, wDelay, wElapsed, wCancelled, wCancelAt>>

\* The select: with no channel ready the goroutine parks on both, with one
\* ready it takes that case, with both ready it takes either.
WaitSelect ==
    /\ wPc = "timer"
    /\ IF ~CtxDone /\ ~TimerFired
       THEN wPc' = "parked" /\ UNCHANGED wRet
       ELSE /\ wPc' = "returned"
            /\ \/ CtxDone /\ wRet' = "ctxErr"
               \/ TimerFired /\ wRet' = "nil"
    /\ UNCHANGED <<notWait, wDelay, wElapsed, wCancelled, wAtCall, wCancelAt>>

\* Time passes; the timer that fires wakes a parked goroutine with nil.
WaitClock ==
    /\ wPc \in {"timer", "parked"}
    /\ wElapsed < MaxWait
    /\ wElapsed' = wElapsed + 1
    /\ IF wPc = "parked" /\ wElapsed + 1 >= wDelay
       THEN wPc' = "returned" /\ wRet' = "nil"
       ELSE UNCHANGED <<wPc, wRet>>
    /\ UNCHANGED <<notWait, wDelay, wCancelled, wAtCall, wCancelAt>>

\* ctx is cancelled; that wakes a parked goroutine with ctx.Err().
CancelCtx ==
    /\ ~wCancelled
    /\ wPc # "returned"
    /\ wCancelled' = TRUE
    /\ wCancelAt' = wElapsed
    /\ IF wPc = "parked"
       THEN wPc' = "returned" /\ wRet' = "ctxErr"
       ELSE UNCHANGED <<wPc, wRet>>
    /\ UNCHANGED <<notWait, wDelay, wElapsed, wAtCall>>

\* No wait at hand.
WaitIdle ==
    /\ wPc = "idle"
    /\ wDelay = 0
    /\ wElapsed = 0
    /\ wCancelled = FALSE
    /\ wAtCall = FALSE
    /\ wCancelAt = 0
    /\ wRet = None

\* ------------------------------------------------ Gemini token bucket

GAuths == {"ga", "gb"}
Scorers == {"s1", "s2"}

\* The bucket's share of the priority: int64((1 - available/capacity) * 600)
BucketPriority(avail) ==
    IF GeminiCapacity > 0
    THEN ((GeminiCapacity - avail) * BucketWeight) \div GeminiCapacity
    ELSE 0

\* availableTokens: now := time.Now().UnixNano(), read before lastFill.
GNow(p, a) ==
    /\ gpc[p] = "idle"
    /\ gauth' = [gauth EXCEPT ![p] = a]
    /\ gt' = [gt EXCEPT ![p] = gnow]
    /\ gpc' = [gpc EXCEPT ![p] = "last"]
    /\ UNCHANGED <<notGemini, gnow, gtokens, glastFill, gpicks, glast, grefilled, gscore>>

\* availableTokens: last := b.lastFill.Load().
GLoadLast(p) ==
    /\ gpc[p] = "last"
    /\ glast' = [glast EXCEPT ![p] = glastFill[gauth[p]]]
    /\ gpc' = [gpc EXCEPT ![p] = "tokens"]
    /\ UNCHANGED <<notGemini, gnow, gtokens, glastFill, gpicks, gauth, gt, grefilled, gscore>>

\* availableTokens: tokens is read and the refill computed, capped above.
GLoadTokens(p) ==
    /\ gpc[p] = "tokens"
    /\ grefilled' = [grefilled EXCEPT ![p] =
                        LET refilled == gtokens[gauth[p]] + (gt[p] - glast[p])
                        IN  IF refilled > GeminiCapacity THEN GeminiCapacity
                            ELSE refilled]
    /\ gpc' = [gpc EXCEPT ![p] = "cas"]
    /\ UNCHANGED <<notGemini, gnow, gtokens, glastFill, gpicks, gauth, gt, glast, gscore>>

\* availableTokens: lastFill.CompareAndSwap(last, now)
GCas(p) ==
    /\ gpc[p] = "cas"
    /\ IF glastFill[gauth[p]] = glast[p]
       THEN /\ glastFill' = [glastFill EXCEPT ![gauth[p]] = gt[p]]
            /\ gpc' = [gpc EXCEPT ![p] = "store"]
       ELSE /\ gpc' = [gpc EXCEPT ![p] = "ret"]
            /\ UNCHANGED glastFill
    /\ UNCHANGED <<notGemini, gnow, gtokens, gpicks, gauth, gt, glast, grefilled, gscore>>

\* availableTokens: tokens.Store(refilled) after a successful swap
GStore(p) ==
    /\ gpc[p] = "store"
    /\ gtokens' = [gtokens EXCEPT ![gauth[p]] = grefilled[p]]
    /\ gpc' = [gpc EXCEPT ![p] = "ret"]
    /\ UNCHANGED <<notGemini, gnow, glastFill, gpicks, gauth, gt, glast, grefilled, gscore>>

\* Score returns the priority (no active requests at this auth).
GScoreReturn(p) ==
    /\ gpc[p] = "ret"
    /\ gscore' = [gscore EXCEPT ![p] = BucketPriority(grefilled[p])]
    /\ gpc' = [gpc EXCEPT ![p] = "idle"]
    /\ UNCHANGED <<notGemini, gnow, gtokens, glastFill, gpicks, gauth, gt, glast, grefilled>>

\* The auth is picked and its request recorded: GeminiStrategy.RecordUsage
\* has an empty body, nothing takes a token out of the bucket.
GeminiRecordUsage(a) ==
    /\ gpicks[a] <= GeminiCapacity
    /\ gpicks' = [gpicks EXCEPT ![a] = @ + 1]
    /\ UNCHANGED <<notGemini, gnow, gtokens, glastFill, gpc, gauth, gt, glast, grefilled, gscore>>

\* Time passes.
GeminiTick ==
    /\ gnow < MaxGNow
    /\ gnow' = gnow + 1
    /\ UNCHANGED <<notGemini, gtokens, glastFill, gpicks, gpc, gauth, gt, glast, grefilled, gscore>>

\* getOrCreateBucket: full buckets, filled now.
GeminiInit ==
    /\ gnow = 0
    /\ gtokens = [a \in GAuths |-> GeminiCapacity]
    /\ glastFill = [a \in GAuths |-> 0]
    /\ gpicks = [a \in GAuths |-> 0]
    /\ gpc = [p \in Scorers |-> "idle"]
    /\ gauth = [p \in Scorers |-> "ga"]
    /\ gt = [p \in Scorers |-> 0]
    /\ glast = [p \in Scorers |-> 0]
    /\ grefilled = [p \in Scorers |-> GeminiCapacity]
    /\ gscore = [p \in Scorers |-> 0]

\* ------------------------------------------------- Antigravity scoring

\* No snapshot: state.GetRealQuota() returns nil.
NoSnapshot == [present |-> FALSE, remaining |-> 0, fetchedAt |-> 0]

\* DefaultStrategy.Score: active requests * 1000 + usage ratio * 500, the
\* limit being the learned one or, when that is not positive,
\* config.EstimatedLimit.
DefaultStrategyScore(active, used, learned) ==
    LET lim == IF learned <= 0 THEN EstimatedLimit ELSE learned
    IN  active * ActiveWeight
          + (IF lim > 0 THEN (used * UsageWeight) \div lim ELSE 0)

\* AntigravityStrategy.Score: with a snapshot fetched less than 5 minutes
\* ago, active requests * 1000 + (1 - RemainingFraction) * 800; otherwise
\* active requests * 1000 + used / LearnedLimit * 500 when LearnedLimit is
\* positive, and active requests * 1000 alone when it is not.
\* RemainingFraction is snap.remaining / FracDen.
AntigravityStrategyScore(active, used, learned, snap, t) ==
    IF snap.present /\ t - snap.fetchedAt < StaleWindow
    THEN active * ActiveWeight
           + ((FracDen - snap.remaining) * RealWeight) \div FracDen
    ELSE active * ActiveWeight
           + (IF learned > 0 THEN (used * UsageWeight) \div learned ELSE 0)

\* The inputs of a Score call: counters of the state, snapshot, clock.
AgInputs ==
    [active : 0..MaxActive, used : 0..MaxTokens, learned : 0..MaxTokens,
     snap : {NoSnapshot} \cup [present : {TRUE}, remaining : 0..FracDen,
                                fetchedAt : 0..MaxAgNow],
     t : 0..MaxAgNow]

\* One Score call of each strategy on the same state.
AgScore ==
    /\ agPc = "ready"
    /\ agOut' = [antigravity |->
                    AntigravityStrategyScore(agIn.active, agIn.used,
                                             agIn.learned, agIn.snap, agIn.t),
                 default |->
                    DefaultStrategyScore(agIn.active, agIn.used, agIn.learned)]
    /\ agPc' = "done"
    /\ UNCHANGED <<notAntigravity, agIn>>

AntigravityIdle ==
    /\ agPc = "done"
    /\ agIn = [active |-> 0, used |-> 0, learned |-> 0, snap |-> NoSnapshot,
               t |-> 0]
    /\ agOut = [antigravity |-> 0, default |-> 0]

\* ---------------------------------------------------- model patterns

\* The characters of the patterns and model names.
GlobChars == {"a", "b", "*", " "}
GlobStrings == UNION {[1..n -> GlobChars] : n \in 0..MaxGlobLen}

\* A caller asks whether the model matches the pattern.
MatchCall ==
    /\ glPc = "ready"
    /\ glOut' = MatchModelPattern(glPattern, glModel)
    /\ glPc' = "done"
    /\ UNCHANGED <<notGlob, glPattern, glModel>>

GlobIdle ==
    /\ glPc = "done"
    /\ glPattern = <<>>
    /\ glModel = <<>>
    /\ glOut = FALSE

\* ----------------------------------------------------- usage reporter

\* The goroutines that share one UsageReporter.
UrCallers == {"r1", "r2"}

\* The usage arguments: nil, a usage with all three token counts 0, a usage
\* with tokens.
Usages == {"nil", "zero", "tokens"}

\* The errors behind TrackFailure's pointer: a nil pointer, no error, a user
\* error (status 400 or CategoryUserError), any other error.
TrackedErrors == {"noptr", "nil", "user", "other"}

NoRecord == [Failed |-> FALSE, Usage |-> "nil"]

\* publishWithOutcome's early returns: whether the call reaches r.once.Do.
ReachesOnce(u, failed) ==
    IF u = "nil" /\ ~failed THEN FALSE
    ELSE IF u = "zero" /\ ~failed THEN FALSE
    ELSE TRUE

\* A call up to r.once.Do: it either returns at once or stands at once.Do
\* with the record it would publish.
ReporterCall(c, reaches, rec) ==
    /\ urPc[c] = "idle"
    /\ IF reaches
       THEN /\ urPc' = [urPc EXCEPT ![c] = "do"]
            /\ urArg' = [urArg EXCEPT ![c] = rec]
            /\ UNCHANGED urSkipped
       ELSE /\ urSkipped' = (urSkipped \/ urOnce = "fresh")
            /\ UNCHANGED <<urPc, urArg>>
    /\ UNCHANGED <<notReporter, urOnce, urRecords>>

\* Publish(ctx, u): publishWithOutcome(ctx, u, false).
Publish(c, u) ==
    ReporterCall(c, ReachesOnce(u, FALSE), [Failed |-> FALSE, Usage |-> u])

\* PublishFailure(ctx): publishWithOutcome(ctx, nil, true).
PublishFailure(c) ==
    ReporterCall(c, ReachesOnce("nil", TRUE), [Failed |-> TRUE, Usage |-> "nil"])

\* TrackFailure(ctx, errPtr): publishFailure for an error that is not a user
\* error, nothing otherwise.
TrackFailure(c, err) ==
    ReporterCall(c, err = "other" /\ ReachesOnce("nil", TRUE),
                 [Failed |-> TRUE, Usage |-> "nil"])

\* EnsurePublished(ctx): once.Do with an empty successful record.
EnsurePublished(c) ==
    ReporterCall(c, TRUE, [Failed |-> FALSE, Usage |-> "nil"])

\* OnceDo without the done test: every caller runs the function.
OnceDo_EveryCaller(c) ==
    /\ urPc[c] = "do"
    /\ urOnce' = "running"
    /\ urPc' = [urPc EXCEPT ![c] = "f"]
    /\ UNCHANGED <<notReporter, urRecords, urArg, urSkipped>>

\* r.once.Do(f): the first caller runs f; a caller that arrives while f runs
\* waits for its end; a caller that arrives after it returns at once.
OnceDo(c) ==
    /\ urPc[c] = "do"
    /\ urOnce # "running"
    /\ IF urOnce = "fresh"
       THEN /\ urOnce' = "running"
            /\ urPc' = [urPc EXCEPT ![c] = "f"]
       ELSE /\ urPc' = [urPc EXCEPT ![c] = "idle"]
            /\ UNCHANGED urOnce
    /\ UNCHANGED <<notReporter, urRecords, urArg, urSkipped>>

\* The function of once.Do: usage.PublishRecord(ctx, record); then the Once
\* is done.
OnceRun(c) ==
    /\ urPc[c] = "f"
    /\ urRecords' = Append(urRecords, urArg[c])
    /\ urOnce' = "done"
    /\ urPc' = [urPc EXCEPT ![c] = "idle"]
    /\ UNCHANGED <<notReporter, urArg, urSkipped>>

\* NewUsageReporter: nothing published.
ReporterInit ==
    /\ urOnce = "fresh"
    /\ urRecords = <<>>
    /\ urPc = [c \in UrCallers |-> "idle"]
    /\ urArg = [c \in UrCallers |-> NoRecord]
    /\ urSkipped = FALSE

\* ------------------------------------------- model suspension registry

\* The goroutines that write to the registry.
Writers == {"w1", "w2"}

\* Client ids and model ids a call can name; "" is the empty id, "mx" is a
\* model nobody registered.
ClientIds == {"", "c1", "c2"}

ModelIds == {"", "m1", "m2", "mx"}

RegisteredModels == {"m1", "m2"}

Reasons == {"ra", "rb"}

\* A client without an entry in SuspendedClients.
NotSuspended == "absent"

\* One ModelRegistration: SuspendedClients and QuotaExceededClients.
EmptyRegistration ==
    [suspended |-> [c \in ClientIds \ {""} |-> NotSuspended], quota |-> {}]

\* The calls: SuspendClientModel, ResumeClientModel, SetModelQuotaExceeded
\* and ClearModelQuotaExceeded.
RegistryCalls ==
    [kind : {"suspend"}, client : ClientIds, model : ModelIds, reason : Reasons]
        \cup [kind : {"resume"}, client : ClientIds, model : ModelIds,
              reason : {"ra"}]
        \cup [kind : {"setquota", "clearquota"}, client : ClientIds \ {""},
              model : {"m1", "mx"}, reason : {"ra"}]

NoCall == [kind |-> "none", client |-> "", model |-> "", reason |-> "ra"]

\* SuspendClientModel and ResumeClientModel return before the lock on an
\* empty id.
EmptyIdReturn(op) ==
    /\ op.kind \in {"suspend", "resume"}
    /\ (op.client = "" \/ op.model = "")

\* The call without writerMu.
MsCall_NoLock(p, op) ==
    /\ msPc[p] = "idle"
    /\ IF EmptyIdReturn(op)
       THEN /\ msLast' = "ignored"
            /\ UNCHANGED <<msMu, msPc, msOp>>
       ELSE /\ msMu' = p
            /\ msPc' = [msPc EXCEPT ![p] = "locked"]
            /\ msOp' = [msOp EXCEPT ![p] = op]
            /\ UNCHANGED msLast
    /\ UNCHANGED <<notSuspension, msState, msNew, msExpected>>

\* A call begins: the early return on an empty id, else writerMu.Lock().
MsCall(p, op) ==
    /\ msPc[p] = "idle"
    /\ IF EmptyIdReturn(op)
       THEN /\ msLast' = "ignored"
            /\ UNCHANGED <<msMu, msPc, msOp>>
       ELSE /\ msMu = "none"
            /\ msMu' = p
            /\ msPc' = [msPc EXCEPT ![p] = "locked"]
            /\ msOp' = [msOp EXCEPT ![p] = op]
            /\ UNCHANGED msLast
    /\ UNCHANGED <<notSuspension, msState, msNew, msExpected>>

\* newState := r.snapshot().clone()
MsClone(p) ==
    /\ msPc[p] = "locked"
    /\ msPc' = [msPc EXCEPT ![p] = "cloned"]
    /\ msNew' = [msNew EXCEPT ![p] = msState]
    /\ UNCHANGED <<notSuspension, msMu, msState, msOp, msExpected, msLast>>

\* What the call does to its clone: "ignored" (no registration), "kept"
\* (already suspended), "absent" (nothing to remove) or "stored".
CallOutcome(st, op) ==
    IF op.model \notin DOMAIN st THEN "ignored"
    ELSE CASE op.kind = "suspend" ->
                  IF st[op.model].suspended[op.client] # NotSuspended
                  THEN "kept" ELSE "stored"
           [] op.kind = "resume" ->
                  IF st[op.model].suspended[op.client] = NotSuspended
                  THEN "absent" ELSE "stored"
           [] op.kind = "setquota" -> "stored"
           [] OTHER ->
                  IF op.client \notin st[op.model].quota
                  THEN "absent" ELSE "stored"

\* The clone after the call's change.
CallStores(st, op) ==
    CASE op.kind = "suspend" ->
             [st EXCEPT ![op.model].suspended[op.client] = op.reason]
      [] op.kind = "resume" ->
             [st EXCEPT ![op.model].suspended[op.client] = NotSuspended]
      [] op.kind = "setquota" ->
             [st EXCEPT ![op.model].quota = @ \cup {op.client}]
      [] OTHER ->
             [st EXCEPT ![op.model].quota = @ \ {op.client}]

\* The suspensions in force after one more call, by the meaning of the
\* calls: a suspend of a client that is not suspended sets the reason, a
\* resume lifts the suspension, everything else leaves them alone.
ExpectedAfter(ex, op) ==
    IF op.model \notin RegisteredModels \/ op.client = "" THEN ex
    ELSE CASE op.kind = "suspend" /\ ex[op.model][op.client] = NotSuspended ->
                  [ex EXCEPT ![op.model][op.client] = op.reason]
           [] op.kind = "resume" ->
                  [ex EXCEPT ![op.model][op.client] = NotSuspended]
           [] OTHER -> ex

\* The rest of the call under the lock: the lookup, the change of the
\* clone, r.state.Store(newState) unless the call returns early, and the
\* deferred Unlock.
MsApply(p) ==
    /\ msPc[p] = "cloned"
    /\ msLast' = CallOutcome(msNew[p], msOp[p])
    /\ msState' = IF CallOutcome(msNew[p], msOp[p]) = "stored"
                  THEN CallStores(msNew[p], msOp[p])
                  ELSE msState
    /\ msExpected' = ExpectedAfter(msExpected, msOp[p])
    /\ msMu' = "none"
    /\ msPc' = [msPc EXCEPT ![p] = "idle"]
    /\ msOp' = [msOp EXCEPT ![p] = NoCall]
    /\ msNew' = [msNew EXCEPT ![p] = [m \in RegisteredModels |-> EmptyRegistration]]
    /\ UNCHANGED notSuspension

SuspensionInit ==
    /\ msMu = "none"
    /\ msState = [m \in RegisteredModels |-> EmptyRegistration]
    /\ msPc = [p \in Writers |-> "idle"]
    /\ msOp = [p \in Writers |-> NoCall]
    /\ msNew = [p \in Writers |-> [m \in RegisteredModels |-> EmptyRegistration]]
    /\ msExpected = [m \in RegisteredModels |->
                        [c \in ClientIds \ {""} |-> NotSuspended]]
    /\ msLast = "none"

\* ------------------------------------------------------ initial state

\* NewQuotaManager: no state, no sticky entry, no refresher; every task idle.
QuotaInit ==
    /\ now = 0
    /\ activeRequests = [a \in Auths |-> 0]
    /\ cooldownUntil = [a \in Auths |-> 0]
    /\ lastExhaustedAt = [a \in Auths |-> 0]
    /\ totalTokensUsed = [a \in Auths |-> 0]
    /\ learnedLimit = [a \in Auths |-> 0]
    /\ disabledUntil = [a \in Auths |-> 0]
    /\ suspended = {}
    /\ sticky = None
    /\ refreshCancels = {}
    /\ pc = [p \in Procs |-> "idle"]
    /\ cands = [p \in Procs |-> <<>>]
    /\ forceRotate = [p \in Procs |-> FALSE]
    /\ available = [p \in Procs |-> <<>>]
    /\ ranked = [p \in Procs |-> <<>>]
    /\ similarCount = [p \in Procs |-> 0]
    /\ selected = [p \in Procs |-> None]
    /\ path = [p \in Procs |-> None]
    /\ result = [p \in Procs |-> None]
    /\ retryAt = [p \in Procs |-> 0]
    /\ hitNow = [p \in Procs |-> 0]
    /\ hitHint = [p \in Procs |-> 0]
    /\ hitTokens = [p \in Procs |-> 0]
    /\ hitLimit = [p \in Procs |-> 0]
    /\ demand = [a \in Auths |-> 0]

\* The quota manager with sticky sessions on and nothing going on.
QuotaIdle == QuotaInit /\ stickyEnabled = TRUE

\* The initial state of everything but the named part.
OutsideQuota == BreakerInit /\ RetryInit /\ RefreshInit /\ SanitizeIdle /\
                ToolIdIdle /\ EnvelopeIdle /\ PayloadIdle /\ RegistryInit /\
                UsageInit /\ FlightInit /\ BackoffIdle /\ WaitIdle /\
                GeminiInit /\ AntigravityIdle /\ GlobIdle /\ ReporterInit /\
                SuspensionInit
OutsideBreaker == QuotaIdle /\ RetryInit /\ RefreshInit /\ SanitizeIdle /\
                  ToolIdIdle /\ EnvelopeIdle /\ PayloadIdle /\
                  RegistryInit /\ UsageInit /\ FlightInit /\ BackoffIdle /\
                  WaitIdle /\ GeminiInit /\ AntigravityIdle /\ GlobIdle /\
                  ReporterInit /\ SuspensionInit
OutsideRetry == QuotaIdle /\ BreakerInit /\ RefreshInit /\ SanitizeIdle /\
                ToolIdIdle /\ EnvelopeIdle /\ PayloadIdle /\ RegistryInit /\
                UsageInit /\ FlightInit /\ BackoffIdle /\ WaitIdle /\
                GeminiInit /\ AntigravityIdle /\ GlobIdle /\ ReporterInit /\
                SuspensionInit

OutsideRefresh == QuotaIdle /\ BreakerInit /\ RetryInit /\ SanitizeIdle /\
                  ToolIdIdle /\ EnvelopeIdle /\ PayloadIdle /\
                  RegistryInit /\ UsageInit /\ FlightInit /\ BackoffIdle /\
                  WaitIdle /\ GeminiInit /\ AntigravityIdle /\ GlobIdle /\
                  ReporterInit /\ SuspensionInit

OutsideSanitize == QuotaIdle /\ BreakerInit /\ RetryInit /\ RefreshInit /\
                   ToolIdIdle /\ EnvelopeIdle /\ PayloadIdle /\
                   RegistryInit /\ UsageInit /\ FlightInit /\ BackoffIdle /\
                   WaitIdle /\ GeminiInit /\ AntigravityIdle /\ GlobIdle /\
                   ReporterInit /\ SuspensionInit

OutsideToolId == QuotaIdle /\ BreakerInit /\ RetryInit /\ RefreshInit /\
                 SanitizeIdle /\ EnvelopeIdle /\ PayloadIdle /\
                 RegistryInit /\ UsageInit /\ FlightInit /\ BackoffIdle /\
                 WaitIdle /\ GeminiInit /\ AntigravityIdle /\ GlobIdle /\
                 ReporterInit /\ SuspensionInit

OutsideEnvelope == QuotaIdle /\ BreakerInit /\ RetryInit /\ RefreshInit /\
                   SanitizeIdle /\ ToolIdIdle /\ PayloadIdle /\
                   RegistryInit /\ UsageInit /\ FlightInit /\ BackoffIdle /\
                   WaitIdle /\ GeminiInit /\ AntigravityIdle /\ GlobIdle /\
                   ReporterInit /\ SuspensionInit

OutsidePayload == QuotaIdle /\ BreakerInit /\ RetryInit /\ RefreshInit /\
                  SanitizeIdle /\ ToolIdIdle /\ EnvelopeIdle /\
                  RegistryInit /\ UsageInit /\ FlightInit /\ BackoffIdle /\
                  WaitIdle /\ GeminiInit /\ AntigravityIdle /\ GlobIdle /\
                  ReporterInit /\ SuspensionInit

OutsideRegistry == QuotaIdle /\ BreakerInit /\ RetryInit /\ RefreshInit /\
                   SanitizeIdle /\ ToolIdIdle /\ EnvelopeIdle /\
                   PayloadIdle /\ UsageInit /\ FlightInit /\ BackoffIdle /\
                   WaitIdle /\ GeminiInit /\ AntigravityIdle /\ GlobIdle /\
                   ReporterInit /\ SuspensionInit

OutsideUsage == QuotaIdle /\ BreakerInit /\ RetryInit /\ RefreshInit /\
                SanitizeIdle /\ ToolIdIdle /\ EnvelopeIdle /\ PayloadIdle /\
                RegistryInit /\ FlightInit /\ BackoffIdle /\ WaitIdle /\
                GeminiInit /\ AntigravityIdle /\ GlobIdle /\ ReporterInit /\
                SuspensionInit

OutsideFlight == QuotaIdle /\ BreakerInit /\ RetryInit /\ RefreshInit /\
                 SanitizeIdle /\ ToolIdIdle /\ EnvelopeIdle /\ PayloadIdle /\
                 RegistryInit /\ UsageInit /\ BackoffIdle /\ WaitIdle /\
                 GeminiInit /\ AntigravityIdle /\ GlobIdle /\ ReporterInit /\
                 SuspensionInit

OutsideBackoff == QuotaIdle /\ BreakerInit /\ RetryInit /\ RefreshInit /\
                  SanitizeIdle /\ ToolIdIdle /\ EnvelopeIdle /\
                  PayloadIdle /\ RegistryInit /\ UsageInit /\ FlightInit /\
                  WaitIdle /\ GeminiInit /\ AntigravityIdle /\ GlobIdle /\
                  ReporterInit /\ SuspensionInit

OutsideWait == QuotaIdle /\ BreakerInit /\ RetryInit /\ RefreshInit /\
               SanitizeIdle /\ ToolIdIdle /\ EnvelopeIdle /\ PayloadIdle /\
               RegistryInit /\ UsageInit /\ FlightInit /\ BackoffIdle /\
               GeminiInit /\ AntigravityIdle /\ GlobIdle /\ ReporterInit /\
               SuspensionInit

OutsideGemini == QuotaIdle /\ BreakerInit /\ RetryInit /\ RefreshInit /\
                 SanitizeIdle /\ ToolIdIdle /\ EnvelopeIdle /\ PayloadIdle /\
                 RegistryInit /\ UsageInit /\ FlightInit /\ BackoffIdle /\
                 WaitIdle /\ AntigravityIdle /\ GlobIdle /\ ReporterInit /\
                 SuspensionInit

OutsideAntigravity == QuotaIdle /\ BreakerInit /\ RetryInit /\ RefreshInit /\
                      SanitizeIdle /\ ToolIdIdle /\ EnvelopeIdle /\
                      PayloadIdle /\ RegistryInit /\ UsageInit /\
                      FlightInit /\ BackoffIdle /\ WaitIdle /\ GeminiInit /\
                      GlobIdle /\ ReporterInit /\ SuspensionInit

OutsideGlob == QuotaIdle /\ BreakerInit /\ RetryInit /\ RefreshInit /\
               SanitizeIdle /\ ToolIdIdle /\ EnvelopeIdle /\ PayloadIdle /\
               RegistryInit /\ UsageInit /\ FlightInit /\ BackoffIdle /\
               WaitIdle /\ GeminiInit /\ AntigravityIdle /\ ReporterInit /\
               SuspensionInit

OutsideReporter == QuotaIdle /\ BreakerInit /\ RetryInit /\ RefreshInit /\
                   SanitizeIdle /\ ToolIdIdle /\ EnvelopeIdle /\
                   PayloadIdle /\ RegistryInit /\ UsageInit /\ FlightInit /\
                   BackoffIdle /\ WaitIdle /\ GeminiInit /\
                   AntigravityIdle /\ GlobIdle /\ SuspensionInit

OutsideSuspension == QuotaIdle /\ BreakerInit /\ RetryInit /\ RefreshInit /\
                     SanitizeIdle /\ ToolIdIdle /\ EnvelopeIdle /\
                     PayloadIdle /\ RegistryInit /\ UsageInit /\
                     FlightInit /\ BackoffIdle /\ WaitIdle /\ GeminiInit /\
                     AntigravityIdle /\ GlobIdle /\ ReporterInit

\* ---------------------------------------- concurrent requests on one pool

\* The pool the concurrent tasks pick from.
ConcAuths == <<"a1", "a2">>

InitConc == QuotaInit /\ OutsideQuota /\ stickyEnabled = TRUE

\* Two request tasks pick from the pool and end their requests, in any
\* interleaving, while auths are registered and unregistered.
NextConc ==
    \/ \E p \in Procs, force \in BOOLEAN : PickBegin(p, ConcAuths, force)
    \/ \E p \in Procs : selectWithStrategy(p)
    \/ \E p \in Procs : PickSticky(p)
    \/ \E p \in Procs : PickReturn(p)
    \/ \E p \in Procs, tokens \in 0..1 : RecordRequestEnd(p, tokens)
    \/ \E a \in Range(ConcAuths) : RegisterAuth(a)
    \/ \E a \in Range(ConcAuths) : UnregisterAuth(a)

SpecConc == InitConc /\ [][NextConc]_vars

\* ------------------------------------------- quota hits on a shared auth

\* The one auth the tasks of SpecHit share.
HitAuths == <<"a1">>

InitHit == QuotaInit /\ OutsideQuota /\ stickyEnabled = TRUE

\* Two request tasks hold the same auth and report 429s with different
\* hints while the clock advances.
NextHit ==
    \/ \E p \in Procs : PickBegin(p, HitAuths, FALSE)
    \/ \E p \in Procs : PickReturn(p)
    \/ \E p \in Procs, tokens \in 0..1 : RecordRequestEnd(p, tokens)
    \/ \E p \in Procs : OnQuotaHit(p)
    \/ Tick

SpecHit == InitHit /\ [][NextHit]_vars

\* --------------------------------------------- quota hits one at a time

InitSerialHit == QuotaInit /\ OutsideQuota /\ stickyEnabled = TRUE

\* One request task uses the auth, reports its token usage and its 429s
\* with or without a hint, one call after the other, while the clock advances.
NextSerialHit ==
    \/ PickBegin("p1", HitAuths, FALSE)
    \/ PickReturn("p1")
    \/ \E tokens \in 0..1 : RecordRequestEnd("p1", tokens)
    \/ OnQuotaHit("p1")
    \/ Tick

SpecSerialHit == InitSerialHit /\ [][NextSerialHit]_vars

\* ----------------------------------------- availability of the candidates

\* The candidate lists the task of SpecAvail passes to Pick.
AvailLists ==
    {<<>>, <<"a1">>, <<"a1", "a2">>, <<"a2", "a3">>, <<"a1", "a2", "a3">>}

\* The auths the orchestrator disables and the registry suspends in SpecAvail.
AvailAuths == {"a1", "a2"}

InitAvail == QuotaInit /\ OutsideQuota /\ stickyEnabled = TRUE

\* One request task picks from changing candidate lists while auths cool
\* down after 429s, are disabled, or are suspended for the model. The task
\* reports no token usage, so OnQuotaHit never enters its CAS branch.
NextAvail ==
    \/ \E auths \in AvailLists, force \in BOOLEAN : PickBegin("p1", auths, force)
    \/ selectWithStrategy("p1")
    \/ PickSticky("p1")
    \/ PickReturn("p1")
    \/ RecordRequestEnd("p1", 0)
    \/ \E hint \in 1..MaxHint : HitBegin("p1", hint)
    \/ HitLoadTokens("p1")
    \/ HitLoadLimit("p1")
    \/ HitCooldown("p1")
    \/ HitReset("p1")
    \/ \E a \in AvailAuths : Disable(a)
    \/ \E a \in AvailAuths : Suspend(a)
    \/ \E a \in AvailAuths : Resume(a)
    \/ StickyExpire

SpecAvail == InitAvail /\ [][NextAvail]_vars

\* ------------------------------------------------- selection by scoring

\* The candidate lists the task of SpecScore passes to Pick.
ScoreLists ==
    {<<"a1", "a2">>, <<"a1", "a2", "a3">>, <<"a1", "a2", "a3", "a4">>,
     <<"a4", "a3", "a2", "a1">>}

InitScore == QuotaInit /\ OutsideQuota /\ stickyEnabled \in BOOLEAN

\* One request task makes serial picks, each followed at once by its
\* record_request_end, with token usage that moves the scores apart.
NextScore ==
    \/ \E auths \in ScoreLists, force \in BOOLEAN : PickBegin("p1", auths, force)
    \/ selectWithStrategy("p1")
    \/ PickSticky("p1")
    \/ PickReturn("p1")
    \/ \E tokens \in 0..1 : RecordRequestEnd("p1", tokens)
    \/ StickyExpire

SpecScore == InitScore /\ [][NextScore]_vars

\* ------------------------------------------- calls through one breaker

\* The quota manager is idle; callers go through one breaker.
InitBreaker == BreakerInit /\ OutsideBreaker

NextBreaker ==
    \/ \E c \in Callers : BeforeRequest(c)
    \/ \E c \in Callers, err \in Outcomes : AfterRequest(c, err)
    \/ State
    \/ BreakerTick

SpecBreaker == InitBreaker /\ [][NextBreaker]_vars

\* ------------------------------------- calls through the retry executor

\* One caller goes through an Executor built with the default retry and
\* breaker configurations.
InitRetry == RetryInit /\ OutsideRetry

NextRetry ==
    \/ xpc = "idle" /\ BeforeRequest("c1")
    \/ ExecEnter("c1")
    \/ \E err \in Outcomes : ExecInvoke(err)
    \/ ExecBackoff
    \/ xpc = "done" /\ AfterRequest("c1", xerr)
    \/ ExecReturn("c1")
    \/ BreakerTick

SpecRetry == InitRetry /\ [][NextRetry]_vars

\* ------------------------------------------- refreshers of one auth

\* One auth is registered, unregistered and registered again while its
\* refreshers fetch and the drain goroutines publish.
InitRefresh == RefreshInit /\ OutsideRefresh

NextRefresh ==
    \/ \E r \in Rids : RegisterAuthRefresh(r)
    \/ UnregisterAuthRefresh
    \/ Shutdown
    \/ \E r \in Rids : RefSleepDone(r)
    \/ \E r \in Rids : RefFetch(r)
    \/ \E r \in Rids : RefSend(r)
    \/ \E r \in Rids : RefLoopDone(r)
    \/ \E r \in Rids : RefLoopTick(r)
    \/ \E r \in Rids : DrainRecv(r)
    \/ \E r \in Rids : DrainWrite(r)
    \/ \E r \in Rids : DrainExit(r)
    \/ TickerFire

SpecRefresh == InitRefresh /\ [][NextRefresh]_vars

\* ---------------------------------------------- payloads to sanitize

\* Any object or array payload of the bounded shape.
InitSanitize ==
    /\ sanPc = 0
    /\ sanIn \in Payloads
    /\ sanOut = sanIn
    /\ sanOut2 = sanIn
    /\ OutsideSanitize

NextSanitize ==
    \/ Sanitize
    \/ SanitizeAgain

SpecSanitize == InitSanitize /\ [][NextSanitize]_vars

\* ------------------------------------------------ tool-call ids to convert

\* Any id, converted to the OpenAI form and back to the Claude form
\* ("openai_first") or to the Claude form and back ("claude_first").
InitToolId ==
    /\ tidPc = 0
    /\ tidDir \in {"openai_first", "claude_first"}
    /\ tidIn \in ToolIDs
    /\ tidOut = <<>>
    /\ tidBack = <<>>
    /\ OutsideToolId

NextToolId ==
    \/ ConvertToolID
    \/ ConvertToolIDBack

SpecToolId == InitToolId /\ [][NextToolId]_vars

\* ------------------------------------------------------ payloads to wrap

InitEnvelope ==
    /\ envPc = 0
    /\ envIn \in EnvPayloads
    /\ envOut = envIn
    /\ envOut2 = envIn
    /\ OutsideEnvelope

NextEnvelope ==
    \/ Ensure
    \/ EnsureAgain

SpecEnvelope == InitEnvelope /\ [][NextEnvelope]_vars

\* --------------------------------------------- payloads under the rules

InitPayload ==
    /\ plPc = 0
    /\ \E ds \in ShapeLists, os \in ShapeLists :
          plCfg = [Default |-> Rules(ds, 10), Override |-> Rules(os, 20)]
    /\ plModel \in ModelNames
    /\ plIn \in RulePayloads
    /\ plOut = plIn
    /\ OutsidePayload

NextPayload == ApplyPayload

SpecPayload == InitPayload /\ [][NextPayload]_vars

\* ------------------------------------- registrations and lookups, in any order

InitRegistry == RegistryInit /\ OutsideRegistry

NextRegistry ==
    \/ \E k \in RegKeys, e \in RegEntries : RegisterToIR(k, e)
    \/ \E k \in RegKeys, e \in RegEntries : RegisterFromIR(k, e)
    \/ \E k \in RegKeys : GetToIR(k)
    \/ \E k \in RegKeys : GetFromIR(k)
    \/ \E k \in RegKeys : MustGetToIR(k)
    \/ \E k \in RegKeys : MustGetFromIR(k)
    \/ \E k \in RegKeys : ParseRequest(k)

SpecRegistry == InitRegistry /\ [][NextRegistry]_vars

\* ------------------------------ handlers enqueue while the write loop runs

InitUsage == UsageInit /\ OutsideUsage

NextUsage ==
    \/ \E u \in UsageCallers : EnqueueCall(u)
    \/ \E u \in UsageCallers : Enqueue(u)
    \/ WriteLoopReceive
    \/ WriteLoopFlush

SpecUsage == InitUsage /\ [][NextUsage]_vars

\* ------------------------------------ the backend is stopped under load

\* Handlers enqueue, the write loop runs, Flush is called and Stop is called
\* (twice), in any interleaving.
NextStop ==
    \/ \E u \in UsageCallers : EnqueueCall(u)
    \/ \E u \in UsageCallers : Enqueue(u)
    \/ WriteLoopReceive
    \/ WriteLoopFlush
    \/ WriteLoopStop
    \/ WriteLoopDrainRecv
    \/ WriteLoopDrainDone
    \/ StopCall
    \/ StopReturn
    \/ FlushCall
    \/ FlushRecv
    \/ FlushDone

SpecStop == InitUsage /\ [][NextStop]_vars

\* --------------------------------------- concurrent token refreshes

InitFlight == FlightInit /\ OutsideFlight

NextFlight ==
    \/ \E c \in FlightCallers, k \in FlightKeys : DoEnter(c, k)
    \/ \E c \in FlightCallers, e \in FnErrors : FnReturn(c, e)
    \/ \E c \in FlightCallers : WaitReturn(c)
    \/ \E c \in FlightCallers : DoneReset(c)

SpecFlight == InitFlight /\ [][NextFlight]_vars

\* ------------------------------------------------- delays to compute

InitBackoff ==
    /\ boPc = 0
    /\ boAttempt \in 0..MaxAttempt
    /\ boBase \in 1..MaxDelay
    /\ boMax \in 1..MaxDelay
    /\ boJitter \in 0..MaxDelay
    /\ boOut = 0
    /\ OutsideBackoff

NextBackoff == Backoff

SpecBackoff == InitBackoff /\ [][NextBackoff]_vars

\* ------------------------------------------------- waits under a context

InitWait ==
    /\ wPc = "idle"
    /\ wDelay \in -1..MaxWait
    /\ wElapsed = 0
    /\ wCancelled = FALSE
    /\ wAtCall = FALSE
    /\ wCancelAt = 0
    /\ wRet = None
    /\ OutsideWait

NextWait ==
    \/ WaitCall
    \/ WaitSelect
    \/ WaitClock
    \/ CancelCtx

SpecWait == InitWait /\ [][NextWait]_vars

\* --------------------------------------- picks against the Gemini buckets

InitGemini == GeminiInit /\ OutsideGemini

\* One scorer at a time: the picks come one after the other.
NextGemini ==
    \/ \E a \in GAuths : GNow("s1", a)
    \/ GLoadLast("s1")
    \/ GLoadTokens("s1")
    \/ GCas("s1")
    \/ GStore("s1")
    \/ GScoreReturn("s1")
    \/ \E a \in GAuths : GeminiRecordUsage(a)
    \/ GeminiTick

SpecGemini == InitGemini /\ [][NextGemini]_vars

\* ------------------------------------- concurrent scores on one bucket

\* Two Score calls on the bucket of one auth, in any interleaving, while
\* time passes.
NextGeminiConc ==
    \/ \E p \in Scorers : GNow(p, "ga")
    \/ \E p \in Scorers : GLoadLast(p)
    \/ \E p \in Scorers : GLoadTokens(p)
    \/ \E p \in Scorers : GCas(p)
    \/ \E p \in Scorers : GStore(p)
    \/ \E p \in Scorers : GScoreReturn(p)
    \/ GeminiTick

SpecGeminiConc == InitGemini /\ [][NextGeminiConc]_vars


\* ------------------------------------------------- Antigravity scoring

\* Every state, snapshot and clock value; the snapshot is never from the future.
InitAntigravity ==
    /\ agPc = "ready"
    /\ agIn \in {i \in AgInputs : i.snap.fetchedAt <= i.t}
    /\ agOut = [antigravity |-> 0, default |-> 0]
    /\ OutsideAntigravity

NextAntigravity == AgScore

SpecAntigravity == InitAntigravity /\ [][NextAntigravity]_vars


\* ---------------------------------------------------- model patterns

\* Every pattern against every model name.
InitGlob ==
    /\ glPc = "ready"
    /\ glPattern \in GlobStrings
    /\ glModel \in GlobStrings
    /\ glOut = FALSE
    /\ OutsideGlob

NextGlob == MatchCall

SpecGlob == InitGlob /\ [][NextGlob]_vars


\* ------------------------------------------ callers of one usage reporter

InitReporter == ReporterInit /\ OutsideReporter

\* Two goroutines call the four methods of one reporter, in any interleaving.
NextReporter ==
    \/ \E c \in UrCallers, u \in Usages : Publish(c, u)
    \/ \E c \in UrCallers : PublishFailure(c)
    \/ \E c \in UrCallers, err \in TrackedErrors : TrackFailure(c, err)
    \/ \E c \in UrCallers : EnsurePublished(c)
    \/ \E c \in UrCallers : OnceDo(c)
    \/ \E c \in UrCallers : OnceRun(c)

SpecReporter == InitReporter /\ [][NextReporter]_vars

\* ------------------------------------ writers of the model registry

InitSuspension == SuspensionInit /\ OutsideSuspension

\* Two writers call suspend, resume and the quota marks in any interleaving.
NextSuspension ==
    \/ \E p \in Writers, op \in RegistryCalls : MsCall(p, op)
    \/ \E p \in Writers : MsClone(p)
    \/ \E p \in Writers : MsApply(p)

SpecSuspension == InitSuspension /\ [][NextSuspension]_vars

\* ==================================================================
\* Properties
\* ==================================================================

\* The tasks that hold an auth between Pick's return and record_request_end.
Holding == {"holding", "hit_load", "hit_limit", "hit_cas", "hit_cool",
            "hit_reset", "hit_done"}

Holders(a) == {p \in Procs : pc[p] \in Holding /\ selected[p] = a}

\* C1: under any interleaving of picks and their record_request_end calls,
\* active_requests of an auth counts exactly the requests in flight on it,
\* so it is back at its starting value 0 once every picked request has ended.
C1_NoLostIncrements ==
    /\ \A a \in Auths : activeRequests[a] = Cardinality(Holders(a))
    /\ (\A p \in Procs : pc[p] = "idle") => \A a \in Auths : activeRequests[a] = 0

\* C1 witness: both tasks are idle again after requests on both auths ended.
C1_Witness ==
    /\ \A p \in Procs : pc[p] = "idle"
    /\ totalTokensUsed["a1"] >= 1
    /\ totalTokensUsed["a2"] >= 1

\* C2: between Pick returning an auth and the paired record_request_end the
\* auth's active_requests is at least 1, and no active_requests is negative.
C2_ActiveAtLeastOne ==
    /\ \A p \in Procs : pc[p] \in Holding => activeRequests[selected[p]] >= 1
    /\ \A a \in Auths : activeRequests[a] >= 0

\* C2 witness: both tasks hold the same auth while an auth is registered.
C2_Witness ==
    /\ pc["p1"] = "holding"
    /\ pc["p2"] = "holding"
    /\ selected["p1"] = selected["p2"]
    /\ activeRequests[selected["p1"]] = 2
    /\ refreshCancels # {}

BeginStep(p) ==
    /\ pc[p] = "idle"
    /\ pc'[p] # "idle" \/ result'[p] \in {"auth_not_found", "retry_after"}
    /\ UNCHANGED <<now, quotaState, envState, sticky>>

\* The candidates of list auths that are available now.
AvailSet(auths) == {a \in Range(auths) : isAvailable(a, now)}

\* C4: Pick returns a RetryAfterError exactly when the candidate list is
\* non-empty and no candidate is available, the error carries the minimum
\* cooldown_until of the candidates, and with an available candidate Pick
\* goes on to return an auth.
C4_RetryAfterExactly ==
    [][\A p \in Procs :
        /\ BeginStep(p) =>
              /\ result'[p] = "retry_after"
                    <=> (cands'[p] # <<>> /\ AvailSet(cands'[p]) = {})
              /\ result'[p] = "retry_after" =>
                    /\ \A a \in Range(cands'[p]) : retryAt'[p] <= cooldownUntil[a]
                    /\ \E a \in Range(cands'[p]) : retryAt'[p] = cooldownUntil[a]
              /\ AvailSet(cands'[p]) # {} =>
                    pc'[p] \in {"inc", "select"} /\ result'[p] = None
        /\ (pc[p] = "inc" /\ pc'[p] = "holding") =>
              result'[p] = "auth" /\ selected'[p] \in Range(available[p])
      ]_vars

\* C4 witness: Pick returned a RetryAfterError for three cooling candidates
\* whose cooldowns differ, carrying the earliest.
C4_Witness ==
    /\ result["p1"] = "retry_after"
    /\ Len(cands["p1"]) = 3
    /\ retryAt["p1"] = 1
    /\ \E a \in Range(cands["p1"]) : cooldownUntil[a] = 2

\* Auth a is the only best of list auths by more than the tie margin.
UniqueBest(a, auths) ==
    /\ a \in Range(auths)
    /\ \A b \in Range(auths) \ {a} : Score(a) + SimilarDelta < Score(b)

\* C5 as stated: if score(a) + 100 < score(b) for every other available
\* candidate b, Pick returns a.
C5_UniqueBestReturned ==
    \A p \in Procs : pc[p] = "inc" =>
        \A a \in Auths : UniqueBest(a, available[p]) => selected[p] = a

\* C5 amended: if score(a) + 100 < score(b) for every other available
\* candidate b and the pick is not decided by a sticky entry, Pick returns a.
C5_UniqueBestReturnedUnlessSticky ==
    \A p \in Procs : (pc[p] = "inc" /\ path[p] # "sticky") =>
        \A a \in Auths : UniqueBest(a, available[p]) => selected[p] = a

\* C5 witness: scoring returned the only best of at least three available
\* auths, and it is not the first candidate.
C5_Witness ==
    /\ pc["p1"] = "inc"
    /\ path["p1"] = "scored"
    /\ Len(available["p1"]) >= 3
    /\ UniqueBest(selected["p1"], available["p1"])
    /\ selected["p1"] # available["p1"][1]

\* C6: when the N available auths have identical scores, every one of them
\* can be the auth the scoring pick draws, so none is starved.
C6_NoTiedAuthStarved ==
    \A p \in Procs :
        (/\ pc[p] = "stick"
         /\ path[p] = "scored"
         /\ \A i \in 1..Len(ranked[p]) : ranked[p][i].priority = ranked[p][1].priority)
        => {ranked[p][i].auth : i \in DrawRange(similarCount[p])}
              = Range(available[p])

\* C7: a sticky entry that names an auth outside the available set never
\* decides the pick: Pick takes the single-auth or the scoring branch and
\* the auth it returns is an available candidate.
C7_StickyAdvisory ==
    [][\A p \in Procs :
        /\ (BeginStep(p) /\ sticky \notin AvailSet(cands'[p])) =>
              /\ path'[p] # "sticky"
              /\ Cardinality(AvailSet(cands'[p])) >= 2 => path'[p] = "scored"
        /\ (BeginStep(p) /\ selected'[p] # None) =>
              selected'[p] \in AvailSet(cands'[p])
        /\ (pc[p] = "select" /\ pc'[p] = "stick") =>
              selected'[p] \in Range(available[p])
        /\ (pc[p] = "inc" /\ pc'[p] = "holding") =>
              selected'[p] \in Range(available[p])
      ]_vars

\* C7 witness: the pick goes to scoring although a sticky entry exists,
\* because the sticky auth is a candidate that is cooling down.
C7_Witness ==
    /\ pc["p1"] = "select"
    /\ ~forceRotate["p1"]
    /\ sticky \in Range(cands["p1"])
    /\ cooldownUntil[sticky] > now
    /\ sticky \notin Range(available["p1"])

\* The places in task p's ranking at which its selected auth stands.
RanksOfSelected(p) ==
    {i \in 1..Len(ranked[p]) : ranked[p][i].auth = selected[p]}

\* C25: a pick made by scoring returns one of the three candidates of lowest
\* priority, and its priority is below the best priority + 100: a candidate
\* at 100 or more above the best, or ranked fourth or later, is not returned.
C25_ScoredPickAmongTied ==
    \A p \in Procs :
        (pc[p] \in {"stick", "inc", "holding"} /\ path[p] = "scored") =>
            /\ \A i \in 1..Len(ranked[p]) :
                   /\ ranked[p][1].priority <= ranked[p][i].priority
                   /\ ranked[p][i].auth \in Range(available[p])
            /\ Len(ranked[p]) = Len(available[p])
            /\ RanksOfSelected(p) # {}
            /\ \A i \in RanksOfSelected(p) :
                   /\ i <= TopN
                   /\ ranked[p][i].priority - ranked[p][1].priority < SimilarDelta

\* Scoring returned the third of four candidates, the fourth being 100 or
\* more above the best.
C25_Witness ==
    /\ pc["p1"] = "stick"
    /\ path["p1"] = "scored"
    /\ Len(ranked["p1"]) = 4
    /\ selected["p1"] = ranked["p1"][3].auth
    /\ ranked["p1"][4].priority - ranked["p1"][1].priority >= SimilarDelta

\* C26: with sticky sessions enabled and force_rotate false, a sticky entry
\* naming an available auth makes Pick return that auth whatever the scores;
\* with force_rotate true the entry is not consulted: Pick scores the
\* available auths (or returns the only one) and returns an auth within the
\* tie window of the best score.
C26_StickyHitUnlessForced ==
    [][\A p \in Procs :
        /\ (/\ BeginStep(p)
            /\ stickyEnabled
            /\ ~forceRotate'[p]
            /\ sticky \in AvailSet(cands'[p])) =>
              /\ selected'[p] = sticky
              /\ pc'[p] = "inc"
        /\ (BeginStep(p) /\ forceRotate'[p] /\ AvailSet(cands'[p]) # {}) =>
              /\ path'[p] # "sticky"
              /\ IF Cardinality(AvailSet(cands'[p])) = 1
                 THEN selected'[p] \in AvailSet(cands'[p])
                 ELSE pc'[p] = "select" /\ selected'[p] = None
        /\ (pc[p] = "select" /\ pc'[p] = "stick") =>
              /\ selected'[p] \in Range(available[p])
              /\ \A b \in Range(available[p]) :
                     Score(selected'[p]) - Score(b) < SimilarDelta
        /\ (pc[p] = "inc" /\ pc'[p] = "holding") =>
              /\ selected'[p] = selected[p]
              /\ result'[p] = "auth"
      ]_vars

\* C26 witness: the sticky entry decided the pick although another available
\* auth scores at least 100 better.
C26_Witness ==
    /\ pc["p1"] = "inc"
    /\ path["p1"] = "sticky"
    /\ ~forceRotate["p1"]
    /\ selected["p1"] = sticky
    /\ \E b \in Range(available["p1"]) :
           Score(sticky) - Score(b) >= SimilarDelta

\* C27: with sticky sessions enabled, when Pick returns an auth the sticky
\* entry names that auth, whichever branch Pick took (single available auth,
\* sticky hit, scoring).
C27_StickyNamesReturned ==
    [][\A p \in Procs :
        (/\ pc[p] = "inc"
         /\ pc'[p] = "holding"
         /\ stickyEnabled
         /\ path[p] \in {"single", "sticky", "scored"}) =>
            sticky' = selected'[p]
      ]_vars

\* C28: a record_quota_hit(a, hint) that runs without interleaving sets
\* last_exhausted_at to the time of the call, learned_limit to the larger of
\* its previous value and total_tokens_used, cooldown_until to that time +
\* hint for a positive hint and + the strategy default otherwise, and
\* total_tokens_used to 0. The first three conjuncts tie the values the call
\* holds to the state at the call; the last states the outcome at its return.
C28_SerialHitEffects ==
    [][\A p \in Procs :
        LET a == selected[p] IN
        /\ (pc[p] = "holding" /\ pc'[p] = "hit_load") =>
              /\ hitNow'[p] = now
              /\ lastExhaustedAt'[a] = now
              /\ learnedLimit' = learnedLimit
              /\ totalTokensUsed' = totalTokensUsed
        /\ (pc[p] = "hit_load" /\ pc'[p] # "hit_load") =>
              /\ hitTokens'[p] = totalTokensUsed[a]
              /\ UNCHANGED <<learnedLimit, totalTokensUsed, hitNow, hitHint>>
        /\ (pc[p] = "hit_limit" /\ pc'[p] # "hit_limit") =>
              /\ hitLimit'[p] = learnedLimit[a]
              /\ UNCHANGED <<learnedLimit, totalTokensUsed, hitNow, hitHint,
                             hitTokens>>
        /\ (pc[p] = "hit_reset" /\ pc'[p] = "hit_done") =>
              /\ lastExhaustedAt'[a] = hitNow[p]
              /\ learnedLimit'[a] = Max(hitLimit[p], hitTokens[p])
              /\ cooldownUntil'[a] =
                     hitNow[p] + (IF hitHint[p] > 0 THEN hitHint[p]
                                  ELSE DefaultCooldown)
              /\ totalTokensUsed'[a] = 0
      ]_vars

\* C28 witness: a later hit, with a hint and with less usage than the limit
\* an earlier hit learned, has stored its three values and is about to reset
\* the usage.
C28_Witness ==
    /\ pc["p1"] = "hit_reset"
    /\ hitNow["p1"] > 0
    /\ hitHint["p1"] = 1
    /\ hitTokens["p1"] = 1
    /\ hitLimit["p1"] = 2
    /\ lastExhaustedAt["a1"] = hitNow["p1"]
    /\ cooldownUntil["a1"] = hitNow["p1"] + 1
    /\ learnedLimit["a1"] = 2

\* C29: in every reachable state, under any interleaving of concurrent
\* record_quota_hit calls with differing hints, cooldown_until of every auth
\* is at or after its last_exhausted_at. Stated for the states in which no
\* record_quota_hit call is between its first and its last store, which
\* leaves out the moment inside one call when last_exhausted_at is already
\* stored and cooldown_until is not yet.
C29_CooldownAfterExhausted ==
    (\A p \in Procs : pc[p] \in {"idle", "holding", "hit_done"}) =>
        \A a \in Auths : cooldownUntil[a] >= lastExhaustedAt[a]

\* C30: under any interleaving of concurrent record_quota_hit and
\* usage-recording calls on one auth, learned_limit never decreases, and when
\* a quota hit has left its update loop, and still when it returns,
\* learned_limit is at least the total_tokens_used value the hit read.
C30_LearnedLimitMonotone ==
    [][/\ \A a \in Auths : learnedLimit'[a] >= learnedLimit[a]
       /\ \A p \in Procs :
            /\ (pc[p] = "hit_load" /\ pc'[p] = "hit_limit") =>
                   hitTokens'[p] = totalTokensUsed[selected[p]]
            /\ (pc[p] \in {"hit_limit", "hit_cas"} /\ pc'[p] = "hit_cool") =>
                   learnedLimit'[selected[p]] >= hitTokens[p]
            /\ (pc[p] = "hit_reset" /\ pc'[p] = "hit_done") =>
                   learnedLimit'[selected[p]] >= hitTokens[p]
      ]_vars

\* C30 witness: between a hit's load of learned_limit and its compare-and-swap
\* the other task's hit, now returned, has raised learned_limit above the
\* usage the first hit read.
C30_Witness ==
    /\ pc["p1"] = "hit_cas"
    /\ pc["p2"] = "hit_done"
    /\ hitTokens["p1"] = 1
    /\ hitLimit["p1"] = 0
    /\ learnedLimit["a1"] = 2

\* ------------------------------------------------------- circuit breaker

TripCondition(requests, failures, consecutive) ==
    /\ requests >= CfgMinRequests
    /\ \/ consecutive >= CfgFailureThreshold
       \/ failures * FailureRatioDen >= FailureRatioNum * requests

\* Caller c's wrapped function returns a server or transport error in this
\* step.
CallFails(c) == cpc[c] = "running" /\ cpc'[c] = "idle" /\ cres'[c] = "server"

\* The condition holds of the current interval once this failure is counted.
TripsNow ==
    LET counts == currentState(cb, bnow).counts
    IN  TripCondition(counts.Requests, counts.TotalFailures + 1,
                      counts.ConsecutiveFailures + 1)

\* Caller c was admitted in the current counting interval.
AdmittedInInterval(c) == cgen[c] = currentState(cb, bnow).generation

\* C9 as stated: a Closed breaker moves to Open exactly in the steps in
\* which a call fails and the trip condition holds of the current counting
\* interval.
C9_OpensExactlyOnTrip ==
    [][cb.state = "closed" =>
         (cb'.state = "open" <=> \E c \in Callers : CallFails(c) /\ TripsNow)]_vars

\* C9 as amended: a Closed breaker moves to Open exactly in the steps in
\* which a call admitted in the current counting interval fails and the trip
\* condition holds of that interval; so it never opens below min_requests,
\* and never on a successful call.
C9_OpensExactlyOnCountedTrip ==
    [][cb.state = "closed" =>
         (cb'.state = "open" <=>
            \E c \in Callers : CallFails(c) /\ AdmittedInInterval(c) /\ TripsNow)]_vars

\* The breaker has opened on a failure after successes and failures.
C9_Witness ==
    /\ cb.state = "open"
    /\ {"nil", "server"} \subseteq seen
    /\ \E c \in Callers : cres[c] = "server"

\* C10: a breaker that opens expires timeout after that instant; until then
\* every step leaves it Open, admits no caller and invokes no function, and
\* an Execute returns ErrOpenState; past the expiry whatever reads the state
\* finds HalfOpen.
C10_OpenUntilTimeout ==
    [][/\ (cb.state # "open" /\ cb'.state = "open") =>
              cb'.expiry = bnow + CfgTimeout
       /\ (cb.state = "open" /\ bnow' <= cb.expiry) =>
              /\ cb'.state = "open"
              /\ cb'.expiry = cb.expiry
              /\ cb'.counts = cb.counts
              /\ observed' # observed => observed' = "open"
              /\ \A c \in Callers :
                    cpc[c] = "idle" =>
                       /\ cpc'[c] = "idle"
                       /\ cres'[c] \in {cres[c], "ErrOpenState"}
       /\ (cb.state = "open" /\ bnow > cb.expiry /\ cb' # cb) =>
              cb'.state = "half-open"
       /\ (cb.state = "open" /\ bnow > cb.expiry /\ observed' # observed) =>
              observed' = "half-open"]_vars

\* An Execute was rejected at the last instant of the timeout.
C10_Witness ==
    /\ cb.state = "open"
    /\ bnow = cb.expiry
    /\ \E c \in Callers : cres[c] = "ErrOpenState"

\* Caller c's wrapped function returns what is_successful accepts in this
\* step.
CallSucceeds(c) ==
    cpc[c] = "running" /\ cpc'[c] = "idle" /\ cres'[c] \in {"nil", "user"}

\* The success of this step is the max_requests-th in a row.
ClosesNow ==
    currentState(cb, bnow).counts.ConsecutiveSuccesses + 1 >= CfgMaxRequests

\* C11 as stated: in HalfOpen a failed call moves the breaker to Open, the
\* max_requests-th consecutive successful call moves it to Closed, and no
\* other step leaves HalfOpen.
C11_HalfOpenExits ==
    [][currentState(cb, bnow).state = "half-open" =>
         /\ (\E c \in Callers : CallFails(c)) => cb'.state = "open"
         /\ (\E c \in Callers : CallSucceeds(c) /\ ClosesNow) =>
               cb'.state = "closed"
         /\ currentState(cb', bnow').state # "half-open" =>
               \E c \in Callers :
                  \/ CallFails(c)
                  \/ CallSucceeds(c) /\ ClosesNow]_vars

\* C11 as amended: the calls that count are those admitted in HalfOpen; the
\* outcome of a call admitted before the breaker became HalfOpen changes
\* nothing.
C11_HalfOpenExitsOnCounted ==
    [][currentState(cb, bnow).state = "half-open" =>
         /\ (\E c \in Callers : CallFails(c) /\ AdmittedInInterval(c)) =>
               cb'.state = "open"
         /\ (\E c \in Callers : CallSucceeds(c) /\ AdmittedInInterval(c)
                                 /\ ClosesNow) => cb'.state = "closed"
         /\ currentState(cb', bnow').state # "half-open" =>
               \E c \in Callers :
                  /\ AdmittedInInterval(c)
                  /\ \/ CallFails(c) /\ cb'.state = "open"
                     \/ CallSucceeds(c) /\ ClosesNow /\ cb'.state = "closed"]_vars

\* State() has returned HalfOpen and the breaker has closed since.
C11_Witness ==
    /\ observed = "half-open"
    /\ cb.state = "closed"

\* ------------------------------------------------------- retry executor

\* C12: a user error ends the retry loop, and another attempt is scheduled
\* only after a server or transport error; so a call whose first attempt
\* fails with a user error is invoked exactly once.
C12_UserErrorNotRetried ==
    /\ xerr = "user" => xpc \in {"done", "idle"}
    /\ xpc = "wait" => xerr = "server"

\* The step in which breaker.Execute of caller c returns: afterRequest.
ExecuteEnds(c) == cpc[c] = "running" /\ cpc'[c] = "idle"

\* The outcome of the call that ends is counted: a success is one more
\* success or closes a half-open breaker, a failure is one more failure or
\* opens the breaker.
OutcomeCounted(b, err) ==
    IF CfgIsSuccessful(err)
    THEN \/ /\ cb'.generation = b.generation
            /\ cb'.counts.TotalSuccesses = b.counts.TotalSuccesses + 1
            /\ cb'.counts.TotalFailures = b.counts.TotalFailures
         \/ b.state = "half-open" /\ cb'.state = "closed"
    ELSE \/ /\ cb'.generation = b.generation
            /\ cb'.counts.TotalFailures = b.counts.TotalFailures + 1
            /\ cb'.counts.TotalSuccesses = b.counts.TotalSuccesses
         \/ b.state # "open" /\ cb'.state = "open"

\* What every step of an Execute call does to the breaker, whatever the
\* outcome: admission counts one request, the attempts and their backoff
\* leave the breaker alone, and the return counts no request.
CountedOnceAsRequest ==
    /\ (cpc["c1"] = "idle" /\ cpc'["c1"] = "running") =>
           cb'.counts.Requests = currentState(cb, bnow).counts.Requests + 1
    /\ (xpc \in {"run", "wait"} \/ xpc' = "run") => cb' = cb
    /\ ExecuteEnds("c1") =>
           /\ cb'.counts.Requests <= cb.counts.Requests
           /\ cb'.counts.TotalSuccesses + cb'.counts.TotalFailures
                 <= cb.counts.TotalSuccesses + cb.counts.TotalFailures + 1

\* C36 as stated: one Executor.Execute call is counted by the breaker as
\* exactly one request whatever the number of attempts inside it, and its
\* outcome as exactly one success or one failure.
C36_ExecuteCountedOnce ==
    [][/\ CountedOnceAsRequest
       /\ ExecuteEnds("c1") => OutcomeCounted(cb, xerr)
      ]_vars

\* C36 amended: the call is counted as one request whatever the number of
\* attempts, and its outcome as exactly one success or failure if the breaker
\* is still in the generation that admitted the call; if the counting
\* interval has expired meanwhile, the outcome is not counted at all.
C36_ExecuteCountedOnceInGeneration ==
    [][/\ CountedOnceAsRequest
       /\ ExecuteEnds("c1") =>
            LET b == currentState(cb, bnow)
            IN  IF b.generation = cgen["c1"]
                THEN OutcomeCounted(b, xerr)
                ELSE cb' = b
      ]_vars

\* C36 witness: a call whose first attempts failed and whose last succeeded
\* has returned, and the breaker's generation holds one request and one
\* success.
C36_Witness ==
    /\ xpc = "done"
    /\ xattempts = 3
    /\ xerr = "nil"
    /\ cpc["c1"] = "idle"
    /\ cb.counts.Requests = 1
    /\ cb.counts.TotalSuccesses = 1
    /\ cb.counts.TotalFailures = 0

\* -------------------------------------------- background quota refresh

\* C13: once UnregisterAuth(a) has returned, and until a is registered
\* again, no step writes a's real_quota.
C13_NoWriteAfterUnregister ==
    [][unreg => realQuota' = realQuota]_vars

\* C14: when one ticker period has passed since a refresher's context was
\* cancelled, the refresher has exited and closed its channel and its drain
\* goroutine has exited.
C14_ReleasedWithinOneTick ==
    \A r \in Rids : ticksSince[r] >= 1 => Released(r)

\* A refresher that had published a snapshot was cancelled and released,
\* and a ticker period has passed.
C14_Witness ==
    /\ realQuota # 0
    /\ \E r \in Rids : ticksSince[r] = 1 /\ Released(r)

\* The refreshers whose context is not cancelled.
LiveRefreshers == {r \in Rids : rctx[r] = "live"}

\* C35: after any sequence of register_auth and unregister_auth calls at most
\* one refresher of the auth is not cancelled, and it is the one whose cancel
\* func the manager holds: a registration cancels the refresher of the
\* registration before it, and after unregister_auth none is left.
C35_OneLiveRefresher ==
    /\ Cardinality(LiveRefreshers) <= 1
    /\ \A r \in LiveRefreshers : refreshCancel = r
    /\ unreg => LiveRefreshers = {}
    /\ refreshCancel = None => LiveRefreshers = {}

\* C35 witness: the auth was registered twice; the goroutine of the first
\* refresher is still there, cancelled, and the second refresher is live.
C35_Witness ==
    /\ rctx["r1"] = "cancelled"
    /\ rpc["r1"] \notin {"none", "exited"}
    /\ rctx["r2"] = "live"
    /\ refreshCancel = "r2"

\* ------------------------------------------------ SanitizeUndefinedValues

\* Whether some value of j, at any depth, is the string "[undefined]".
RECURSIVE HasUndefinedValue(_)
HasUndefinedValue(j) ==
    CASE j.t = "str" -> j.v = "[undefined]"
      [] j.t \in {"obj", "arr"} -> \E k \in DOMAIN j.v : HasUndefinedValue(j.v[k])
      [] OTHER -> FALSE

\* C15: sanitizing the sanitized payload changes nothing, and the sanitized
\* payload holds no "[undefined]" value at any depth.
C15_SanitizeIdempotentAndClean ==
    /\ sanPc >= 1 => ~HasUndefinedValue(sanOut.val)
    /\ sanPc = 2 => sanOut2 = sanOut

\* A value that the removal takes away.
Removed == [t |-> "removed", v |-> ""]

\* The payload value with only the "[undefined]" values, and the objects
\* they leave empty, taken away: nulls, other strings, objects and arrays
\* that were empty before, and the order of array elements stay.
RECURSIVE WithoutUndefined(_)
RECURSIVE ItemsWithoutUndefined(_)
ItemsWithoutUndefined(q) ==
    IF q = <<>> THEN <<>>
    ELSE IF WithoutUndefined(Head(q)) = Removed
         THEN ItemsWithoutUndefined(Tail(q))
         ELSE <<WithoutUndefined(Head(q))>> \o ItemsWithoutUndefined(Tail(q))
WithoutUndefined(j) ==
    CASE j.t = "str" -> IF j.v = "[undefined]" THEN Removed ELSE j
      [] j.t = "obj" ->
            LET kept == {k \in DOMAIN j.v : WithoutUndefined(j.v[k]) # Removed}
            IN  IF kept = {} /\ DOMAIN j.v # {} THEN Removed
                ELSE JObj([k \in kept |-> WithoutUndefined(j.v[k])])
      [] j.t = "arr" -> JArr(ItemsWithoutUndefined(j.v))
      [] OTHER -> j

\* C39: the sanitized payload is the payload without its "[undefined]"
\* values and without the objects they leave empty; every other key and
\* value is there as before, empty objects and arrays of the input and the
\* order of array elements included. (A payload that the removal empties
\* as a whole is left out.)
C39_SanitizeRemovesOnlyUndefined ==
    (sanPc >= 1 /\ WithoutUndefined(sanIn.val) # Removed) =>
        sanOut.val = WithoutUndefined(sanIn.val)

\* ------------------------------------------------------- tool-call ids

\* C16: whatever the id, converting it to the other form and back yields
\* the id, in both orders, and toClaudeToolID sends no other id to the same
\* Claude id.
C16_ToolIdRoundTrip ==
    /\ tidPc = 2 => tidBack = tidIn
    /\ \A x \in ToolIDs :
           x # tidIn => toClaudeToolID(x) # toClaudeToolID(tidIn)

\* ------------------------------------------------- Cloud Code envelope

\* The payload is a JSON object with a top-level request or response key.
HasEnvelopeKey(payload) ==
    /\ payload.body.t = "obj"
    /\ {"request", "response"} \cap DOMAIN payload.body.v # {}

\* C17: for a JSON object payload, a second EnsureRequestEnvelope changes
\* nothing; a payload with a top-level request or response key comes back
\* unchanged, any other comes back as the one object {"request": payload}.
C17_EnsureIdempotent ==
    (envPc = 2 /\ envIn.body.t = "obj") =>
        /\ envOut2 = envOut
        /\ HasEnvelopeKey(envIn) => envOut = envIn
        /\ ~HasEnvelopeKey(envIn) =>
               /\ DOMAIN envOut.body.v = {"request"}
               /\ envOut.body.v["request"] = envIn.body

\* An object whose only request key is nested was wrapped, once.
C17_Witness ==
    /\ envPc = 2
    /\ envIn.body.t = "obj"
    /\ DOMAIN envIn.body.v = {"contents"}
    /\ envIn.body.v["contents"].t = "obj"
    /\ envOut # envIn
    /\ envOut2 = envOut

\* ------------------------------------------------------- payload rules

RulePaths == {<<"a">>, <<"a", "b">>}

\* The rule matches the model of the call.
RuleMatches(rule) == payloadRuleMatchesModel(rule.Models, plModel, "")

\* The places, in a list of rules, of the matching rules that name the pth.
NamingRules(rules, pth) ==
    {i \in 1..Len(rules) :
        /\ RuleMatches(rules[i])
        /\ \E j \in 1..Len(rules[i].Params) : rules[i].Params[j].path = pth}

FirstOf(S) == CHOOSE i \in S : \A k \in S : i <= k
LastOf(S) == CHOOSE i \in S : \A k \in S : k <= i

NoNestedPaths ==
    \E pth \in RulePaths :
        \A q \in RulePaths \ {pth} :
            /\ NamingRules(plCfg.Default, q) = {}
            /\ NamingRules(plCfg.Override, q) = {}

MapOf(op) == IF op \in {"GetFromIR", "MustGetFromIR"} THEN "fromIR" ELSE "toIR"

\* The places in the log of the registrations under the lookup's map and key.
Registered ==
    {i \in 1..Len(regLog) :
        regLog[i].map = MapOf(lookup.op) /\ regLog[i].key = lookup.key}

\* C19: a lookup returns the entry registered last under its key; for a key
\* never registered it returns no entry: the Get operations report not
\* found, the MustGet operations panic and ParseRequest returns an error.
C19_LookupByExactKey ==
    lookup.op # None =>
        IF Registered # {}
        THEN /\ lookup.ok
             /\ ~lookup.failed
             /\ lookup.entry = regLog[LastOf(Registered)].entry
        ELSE /\ ~lookup.ok
             /\ lookup.entry = None
             /\ lookup.op \in {"MustGetToIR", "MustGetFromIR", "ParseRequest"} =>
                    lookup.failed

\* A format registered twice, with another parser the second time, was
\* looked up while the other format had a parser of its own.
C19_Witness ==
    /\ lookup.op = "GetToIR"
    /\ Cardinality(Registered) = 2
    /\ regLog[FirstOf(Registered)].entry # lookup.entry
    /\ Cardinality(DOMAIN toIR) = 2

\* ------------------------------------------------------ usage backend

\* The caller returns from Enqueue in this step.
EnqueueReturns(u) == upc[u] = "enqueue" /\ upc'[u] = "idle"

\* C20: a caller inside Enqueue can always take its step, whatever the
\* queue holds; the step returns; on a full queue it drops the record and
\* leaves the queue as it was, otherwise it puts the record at the end.
C20_EnqueueNeverBlocks ==
    [][\A u \in UsageCallers :
          /\ upc[u] = "enqueue" => ENABLED Enqueue(u)
          /\ EnqueueReturns(u) =>
                IF Len(recordChan) >= QueueCap
                THEN /\ recordChan' = recordChan
                     /\ dropped' = dropped \cup {urec[u]}
                ELSE /\ recordChan' = Append(recordChan, urec[u])
                     /\ dropped' = dropped]_vars

\* A record was dropped on a full queue whose records are still there.
C20_Witness ==
    /\ dropped # {}
    /\ Len(recordChan) = QueueCap
    /\ \A u \in UsageCallers : upc[u] = "idle"

\* How often record r was handed to writeBatch.
TimesWritten(r) == Cardinality({i \in 1..Len(written) : written[i] = r})

\* C37: every record Enqueue accepted before Stop was called has been handed
\* to writeBatch exactly once when Stop returns, and no record is ever
\* handed over twice, also with Flush running beside the write loop; a
\* repeated Stop changes nothing.
C37_StopWritesAccepted ==
    [][/\ \A r \in 1..nextRecord : TimesWritten(r) <= 1
       /\ stopPc' = "returned" =>
              \A r \in acceptedAtStop' : Cardinality({i \in 1..Len(written') :
                                                         written'[i] = r}) = 1
       /\ (stopPc = "returned" /\ stopCalls' # stopCalls) =>
              UNCHANGED <<recordChan, batch, written, stopClosed, stopPc, wlPc>>
      ]_vars

\* ------------------------------------------------ token refresh group

\* C21: for each auth id at most one run of the refresh function is in
\* flight; a caller that waits has joined a run for its own auth id, which is
\* in flight or done; and every caller that returned holds the result and
\* error of the run it started or joined, a run for its own auth id.
C21_OneRefreshPerKey ==
    /\ \A k \in FlightKeys :
           Cardinality({i \in 1..Len(sfCalls) :
                           sfCalls[i].auth = k /\ ~sfCalls[i].done}) <= 1
    /\ \A c \in FlightCallers :
           tpc[c] = "wait" =>
              /\ sfCalls[tcall[c]].auth = tkey[c]
              /\ \/ sfCalls[tcall[c]].done
                 \/ \E d \in FlightCallers :
                        tpc[d] = "run" /\ tcall[d] = tcall[c]
    /\ \A c \in FlightCallers :
           tpc[c] = "done" =>
              /\ sfCalls[tcall[c]].done
              /\ sfCalls[tcall[c]].auth = tkey[c]
              /\ tres[c] = [val |-> sfCalls[tcall[c]].val,
                            err |-> sfCalls[tcall[c]].err]

\* Two callers returned from one failed run for one auth id while a third
\* ran the function for the other auth id.
C21_Witness ==
    /\ tpc["t1"] = "done" /\ tpc["t2"] = "done"
    /\ tcall["t1"] = tcall["t2"]
    /\ tres["t1"].err = "failed" /\ tres["t2"] = tres["t1"]
    /\ tpc["t3"] = "run" /\ tkey["t3"] # tkey["t1"]

\* ------------------------------------------------------------ backoff

\* C22: the delay for attempt n is min(base * 2^n, max) plus a jitter in
\* [0, jitter), and exactly min(base * 2^n, max) without jitter.
C22_BackoffIsCappedExponential ==
    boPc = 1 =>
        LET ideal == Min(boBase * 2^boAttempt, boMax)
        IN  /\ boJitter = 0 => boOut = ideal
            /\ boOut >= ideal
            /\ boOut - ideal <= Max(boJitter - 1, 0)

\* C40: with 0 < base <= max, the delay for any attempt and any jitter lies
\* between base and max, so it is never zero or negative, and without
\* jitter no earlier attempt has a longer delay.
C40_BackoffWithinBounds ==
    (boPc = 1 /\ boBase <= boMax) =>
        /\ boBase <= boOut
        /\ boOut <= boMax
        /\ boJitter = 0 =>
               \A m \in 0..boAttempt :
                   CalculateBackoff(m, boBase, boMax, 0, 0) <= boOut

\* ------------------------------------------------- WaitWithContext

\* ctx was cancelled at the call, or later and before the delay had elapsed.
CancelledBeforeElapsed ==
    wCancelled /\ (wAtCall \/ wCancelAt < wDelay)

\* C23: WaitWithContext returns the context's error whenever ctx was
\* cancelled at the call or before the delay had elapsed, whatever the delay,
\* and nil only when the delay elapsed without that.
C23_WaitHonoursCancel ==
    wPc = "returned" =>
        /\ CancelledBeforeElapsed => wRet = "ctxErr"
        /\ wRet = "nil" => ~CancelledBeforeElapsed

\* ------------------------------------------------ Gemini token bucket

\* C24: after as many picks of one auth as the bucket holds, with no time
\* passed, its bucket is empty, and a score of it taken then is worse than
\* the score of an auth that was never picked.
C24_BucketDrainsOnPicks ==
    \A a \in GAuths :
        (gnow = 0 /\ gpicks[a] >= GeminiCapacity /\ gpc["s1"] = "idle") =>
            /\ gtokens[a] = 0
            /\ \A b \in GAuths \ {a} :
                   gpicks[b] = 0 =>
                      BucketPriority(gtokens[a]) > BucketPriority(gtokens[b])

\* Whether the call's snapshot is present and less than 5 minutes old.
AgFresh == agIn.snap.present /\ agIn.t - agIn.snap.fetchedAt < StaleWindow

\* C31: the Antigravity score uses the snapshot only when it is less than 5
\* minutes old; with no snapshot or an older one the score equals the default
\* strategy's usage-ratio score of the same state.
C31_StaleSnapshotMeansDefaultScore ==
    agPc = "done" =>
        IF AgFresh
        THEN agOut.antigravity =
                agIn.active * ActiveWeight
                  + ((FracDen - agIn.snap.remaining) * RealWeight) \div FracDen
        ELSE agOut.antigravity = agOut.default

\* C32: under any interleaving of concurrent Score calls on one Gemini token
\* bucket, last_fill never decreases and tokens stays within 0..capacity.
C32_BucketMonotone ==
    [][\A a \in GAuths :
          /\ glastFill'[a] >= glastFill[a]
          /\ gtokens'[a] >= 0
          /\ gtokens'[a] <= GeminiCapacity
      ]_vars

\* ---------------------------------------------------- model patterns

\* Glob semantics: each * stands for any, possibly empty, sequence of
\* characters and every other character for itself.
RECURSIVE GlobMatches(_, _)
GlobMatches(pattern, model) ==
    IF pattern = <<>> THEN model = <<>>
    ELSE IF Head(pattern) = "*"
    THEN \/ GlobMatches(Tail(pattern), model)
         \/ model # <<>> /\ GlobMatches(pattern, Tail(model))
    ELSE /\ model # <<>>
         /\ Head(model) = Head(pattern)
         /\ GlobMatches(Tail(pattern), Tail(model))

\* C33: MatchModelPattern(pattern, model) is true exactly when the model
\* matches the pattern under glob semantics, an empty pattern matching
\* nothing. Stated for the pattern and the model without the white space at
\* their ends, which MatchModelPattern trims before it compares.
C33_MatchIsGlob ==
    glPc = "done" =>
        (glOut <=> /\ TrimSpace(glPattern) # <<>>
                   /\ GlobMatches(TrimSpace(glPattern), TrimSpace(glModel)))

\* ----------------------------------------------------- usage reporter

\* A call by c that returns without reaching once.Do.
ReturnsEarly(c) ==
    /\ urPc[c] = "idle"
    /\ urPc'[c] = "idle"
    /\ urSkipped' # urSkipped \/ UNCHANGED reporterVars

\* C34: one UsageReporter publishes at most one record under any sequence or
\* interleaving of Publish, PublishFailure, TrackFailure and EnsurePublished,
\* and a call that publishes nothing leaves the single slot free: after a
\* call that returned early on a fresh reporter the reporter is still fresh,
\* and a caller standing at once.Do of a fresh reporter can go on to publish.
C34_AtMostOneRecord ==
    [][/\ Len(urRecords') <= 1
       /\ (urOnce' = "done") = (Len(urRecords') = 1)
       /\ \A c \in UrCallers :
            /\ ReturnsEarly(c) => UNCHANGED <<urOnce, urRecords>>
            /\ (urPc[c] = "do" /\ urOnce = "fresh") =>
                   /\ ENABLED OnceDo(c)
                   /\ OnceDo(c) => urPc'[c] = "f"
            /\ (urPc[c] = "f" /\ urPc'[c] = "idle") =>
                   urRecords' = <<urArg[c]>>
      ]_vars

\* C34 witness: a call published nothing on the fresh reporter and a later
\* call published the one record, a failure.
C34_Witness ==
    /\ urSkipped
    /\ urOnce = "done"
    /\ Len(urRecords) = 1
    /\ urRecords[1].Failed
    /\ \A c \in UrCallers : urPc[c] = "idle"

\* ------------------------------------------- model suspension registry

\* C38: for a registered model, the published state suspends a client
\* exactly from a suspend call until the next resume call for that pair,
\* with the reason of the first suspend, whatever other calls interleave;
\* a call that names an unregistered model or an empty id leaves the
\* published state as it was.
C38_SuspendedUntilResumed ==
    [][/\ \A m \in RegisteredModels : msState'[m].suspended = msExpected'[m]
       /\ msLast' = "ignored" => msState' = msState
      ]_vars

\* A second suspend with another reason has been turned away while a call
\* ignored for its model or id came last.
C38_Witness ==
    /\ msLast = "kept"
    /\ msState["m1"].suspended["c1"] = "ra"
    /\ msState["m1"].suspended["c2"] = "rb"
    /\ msState["m2"].suspended["c1"] = "rb"
    /\ msState["m1"].quota = {"c1"}

====
